---- MODULE Spec2Model ----
(***************************************************************************)
(* A model of marky: the dispatcher (internal/marky), the Markdown table   *)
(* renderer (internal/utils) and the MIME sniffer (internal/mimetypes).    *)
(* Go strings are TLA+ strings; byte slices are sequences of byte values.  *)
(***************************************************************************)
EXTENDS Integers, Sequences, FiniteSets, TLC

VARIABLES
    Converters,   \* Marky.Converters: the registry, in registration order
    last,         \* the last dispatcher call: its inputs, its result, what it invoked
    rows,         \* the [][]string handed to ToMarkdownTable
    tableOut,     \* what ToMarkdownTable returned for rows
    tpc,          \* "input" before the renderer ran, "done" after
    detections,   \* the DetectMimeType calls made so far, with their results
    archive,      \* the DOCX file the conversions are run on
    runs,         \* the convertDocxToMarkdown calls made so far, with their results
    zfList,       \* file.list of the latest conversion: the numbering counters
    gor,          \* the goroutines that each run one convertDocxToMarkdown call
    cwd,          \* the files under the working directory of the process
    deck,         \* the PPTX file handed to convertToMarkdown
    deckRuns      \* the convertToMarkdown calls made so far, with their results

vars ==
    <<Converters, last, rows, tableOut, tpc, detections, archive, runs, zfList,
      gor, cwd, deck, deckRuns>>

dispatchVars == <<Converters, last>>
tableVars == <<rows, tableOut, tpc>>
mimeVars == <<detections>>
docxVars == <<archive, runs, zfList>>
concVars == <<gor, cwd>>
pptxVars == <<deck, deckRuns>>
officeVars == <<docxVars, concVars, pptxVars>>

\* no DOCX file is being converted
DocxIdle ==
    /\ archive = <<>>
    /\ runs = <<>>
    /\ zfList = <<>>

\* no goroutine runs a conversion, and nothing has been written to disk
ConcIdle ==
    /\ gor = <<>>
    /\ cwd = <<>>

\* no PPTX file is being converted
PptxIdle ==
    /\ deck = <<>>
    /\ deckRuns = <<>>

\* no office document is being converted
OfficeIdle == DocxIdle /\ ConcIdle /\ PptxIdle

(***************************************************************************)
(* Strings                                                                 *)
(***************************************************************************)

\* strings.HasPrefix / bytes.HasPrefix
HasPrefix(s, prefix) ==
    /\ Len(s) >= Len(prefix)
    /\ SubSeq(s, 1, Len(prefix)) = prefix

\* the i-th character of a string, as a one-character string
CharAt(s, i) == SubSeq(s, i, i)

UpperLetters == "ABCDEFGHIJKLMNOPQRSTUVWXYZ"
LowerLetters == "abcdefghijklmnopqrstuvwxyz"

UpperSet == {CharAt(UpperLetters, i) : i \in 1..Len(UpperLetters)}

\* unicode.ToLower on one ASCII character
LowerChar(c) ==
    IF c \in UpperSet
    THEN LET i == CHOOSE j \in 1..Len(UpperLetters) : CharAt(UpperLetters, j) = c
         IN  CharAt(LowerLetters, i)
    ELSE c

RECURSIVE ToLowerFrom(_, _)
ToLowerFrom(s, i) ==
    IF i > Len(s) THEN "" ELSE LowerChar(CharAt(s, i)) \o ToLowerFrom(s, i + 1)

\* strings.ToLower
ToLower(s) == ToLowerFrom(s, 1)

\* unicode.IsSpace on one character (the ASCII white space the inputs use)
IsSpace(c) == c \in {" ", "\n", "\t", "\r"}

RECURSIVE TrimLeft(_)
TrimLeft(s) ==
    IF s # "" /\ IsSpace(CharAt(s, 1)) THEN TrimLeft(SubSeq(s, 2, Len(s))) ELSE s

RECURSIVE TrimRight(_)
TrimRight(s) ==
    IF s # "" /\ IsSpace(CharAt(s, Len(s)))
    THEN TrimRight(SubSeq(s, 1, Len(s) - 1))
    ELSE s

\* strings.TrimSpace
TrimSpace(s) == TrimRight(TrimLeft(s))

RECURSIVE ReplaceAllFrom(_, _, _, _)
ReplaceAllFrom(s, i, old, new) ==
    IF i > Len(s) THEN ""
    ELSE IF CharAt(s, i) = old
         THEN new \o ReplaceAllFrom(s, i + 1, old, new)
         ELSE CharAt(s, i) \o ReplaceAllFrom(s, i + 1, old, new)

\* strings.ReplaceAll for a one-character old string
ReplaceAll(s, old, new) == ReplaceAllFrom(s, 1, old, new)

RECURSIVE ExtFrom(_, _)
ExtFrom(path, i) ==
    IF i < 1 \/ CharAt(path, i) = "/" THEN ""
    ELSE IF CharAt(path, i) = "." THEN SubSeq(path, i, Len(path))
    ELSE ExtFrom(path, i - 1)

\* filepath.Ext: the suffix from the last dot of the last path element
Ext(path) == ExtFrom(path, Len(path))

RECURSIVE IndexFrom(_, _, _)
IndexFrom(s, c, i) ==
    IF i > Len(s) THEN 0
    ELSE IF CharAt(s, i) = c THEN i ELSE IndexFrom(s, c, i + 1)

\* strings.IndexByte, 1-based, 0 when c does not occur
IndexOf(s, c) == IndexFrom(s, c, 1)

(***************************************************************************)
(* Errors: an error value is its message and the message of the error it   *)
(* wraps (fmt.Errorf with %w); NilErr is Go's nil error.                   *)
(***************************************************************************)

NoMsg == "<nil>"
NilErr == [msg |-> NoMsg, unwrap |-> NoMsg]

\* errors.New(msg)
NewError(msg) == [msg |-> msg, unwrap |-> NoMsg]

\* fmt.Errorf(prefix + ": %w", err)
Wrap(prefix, err) == [msg |-> prefix \o ": " \o err.msg, unwrap |-> err.msg]

(***************************************************************************)
(* The files Convert is called on, and what mimetype.DetectFile finds.     *)
(* A MIME value (mimetype.MIME) carries the detected type with its         *)
(* parameters, the extension the library associates with that type, and    *)
(* the type's aliases. Detection reads the file's bytes only: the file's   *)
(* name plays no part in it.                                               *)
(***************************************************************************)

MimeTextPlain ==
    [mime |-> "text/plain; charset=utf-8", extension |-> ".txt", aliases |-> {}]
MimeTextCsv ==
    [mime |-> "text/csv; charset=utf-8", extension |-> ".csv", aliases |-> {}]
MimePdf ==
    [mime |-> "application/pdf", extension |-> ".pdf",
     aliases |-> {"application/x-pdf"}]
MimeOctetStream ==
    [mime |-> "application/octet-stream", extension |-> "", aliases |-> {}]

\* path -> the file at that path: whether it can be opened, and what its bytes are
\* detected as
FileSystem ==
    [p \in {"test.txt", "x.foo", "data.bin", "table.csv", "doc.pdf", "notes.csv",
            "/nonexistent/file.txt"} |->
        CASE p = "test.txt"  -> [exists |-> TRUE, mtype |-> MimeTextPlain]
          [] p = "x.foo"     -> [exists |-> TRUE, mtype |-> MimeTextPlain]
          [] p = "data.bin"  -> [exists |-> TRUE, mtype |-> MimeOctetStream]
          [] p = "table.csv" -> [exists |-> TRUE, mtype |-> MimeTextCsv]
          [] p = "doc.pdf"   -> [exists |-> TRUE, mtype |-> MimePdf]
          [] p = "notes.csv" -> [exists |-> TRUE, mtype |-> MimePdf]
          [] OTHER           -> [exists |-> FALSE, mtype |-> MimeOctetStream]]

Paths == DOMAIN FileSystem

\* mimetype.DetectFile(path): <<MIME, error>>
DetectFile(path) ==
    IF FileSystem[path].exists
    THEN <<FileSystem[path].mtype, NilErr>>
    ELSE <<MimeOctetStream,
           NewError("open " \o path \o ": no such file or directory")>>

\* mime.ParseMediaType, its first result: the type without parameters, lower-cased
ParseMediaType(v) ==
    LET semi == IndexOf(v, ";")
        base == IF semi = 0 THEN v ELSE SubSeq(v, 1, semi - 1)
    IN  ToLower(TrimSpace(base))

\* MIME.String()
MimeString(mtype) == mtype.mime

\* MIME.Extension()
MimeExtension(mtype) == mtype.extension

\* MIME.Is(expected)
MimeIs(mtype, expected) ==
    LET want == ParseMediaType(expected)
    IN  \/ want = ParseMediaType(mtype.mime)
        \/ want \in mtype.aliases

(***************************************************************************)
(* Converters: the Converter interface, as BaseConverter plus a Load.      *)
(***************************************************************************)

\* MockConverter: NewBaseConverter(extensions, mimeTypes) plus a loadFunc that
\* answers loadOut for every path, or fails with loadErr
MockConverter(name, extensions, mimeTypes, loadOut, loadErr) ==
    [name |-> name, acceptedExtensions |-> extensions,
     acceptedMimeTypes |-> mimeTypes, loadOut |-> loadOut, loadErr |-> loadErr]

\* the converters a caller may register
ConverterKinds ==
    { MockConverter("first", <<>>, <<"text/plain">>, "first loader result", NoMsg),
      MockConverter("second", <<>>, <<"text/plain">>, "second loader result", NoMsg),
      MockConverter("failing", <<>>, <<"text/plain">>, "", "loader failed"),
      MockConverter("foo", <<".foo">>, <<>>, "foo result", NoMsg),
      MockConverter("csv", <<".csv">>, <<"application/csv">>, "csv result", NoMsg),
      MockConverter("pdf", <<>>, <<"Application/X-PDF; version=1">>, "pdf result",
                    NoMsg) }

\* Converter.Load(path): <<string, error>>
Load(converter, path) ==
    IF converter.loadErr # NoMsg
    THEN <<"", NewError(converter.loadErr)>>
    ELSE <<converter.loadOut \o " from " \o path, NilErr>>

\* slices.Contains
Contains(seq, v) == \E i \in 1..Len(seq) : seq[i] = v

\* accepts without its extension test
acceptsMimeOnly(mtype, extensions, mtypes) ==
    \E i \in 1..Len(mtypes) : MimeIs(mtype, mtypes[i])

\* accepts(mtype, extensions, mtypes)
accepts(mtype, extensions, mtypes) ==
    IF Contains(extensions, MimeExtension(mtype))
    THEN TRUE
    ELSE \E i \in 1..Len(mtypes) : MimeIs(mtype, mtypes[i])

\* the error of Convert's last line, naming the type without its parameters
NoConverterErrorBareType(mtype) ==
    NewError("no converter found for MIME type: " \o ParseMediaType(mtype.mime))

\* the error of Convert's last line
NoConverterError(mtype) ==
    NewError("no converter found for MIME type: " \o MimeString(mtype))

\* the range loop of Convert, going on to the next converter when a Load fails
RECURSIVE ConvertLoopSkipFailed(_, _, _, _, _)
ConvertLoopSkipFailed(converters, i, mtype, path, tested) ==
    IF i > Len(converters)
    THEN [out |-> "", err |-> NoConverterError(mtype),
          tested |-> tested, loads |-> <<>>]
    ELSE IF accepts(mtype, converters[i].acceptedExtensions,
                    converters[i].acceptedMimeTypes)
         THEN LET r == Load(converters[i], path)
                  rest == ConvertLoopSkipFailed(converters, i + 1, mtype, path,
                                                Append(tested, i))
              IN  IF r[2] # NilErr /\ rest.loads # <<>>
                  THEN [rest EXCEPT !.loads = <<i>> \o rest.loads]
                  ELSE [out |-> r[1], err |-> r[2],
                        tested |-> Append(tested, i), loads |-> <<i>>]
         ELSE ConvertLoopSkipFailed(converters, i + 1, mtype, path,
                                    Append(tested, i))

\* the range loop of Convert from index i on: the pair returned, the indices whose
\* predicate was evaluated and the indices whose Load was called
RECURSIVE ConvertLoop(_, _, _, _, _)
ConvertLoop(converters, i, mtype, path, tested) ==
    IF i > Len(converters)
    THEN [out |-> "", err |-> NoConverterError(mtype),
          tested |-> tested, loads |-> <<>>]
    ELSE IF accepts(mtype, converters[i].acceptedExtensions,
                    converters[i].acceptedMimeTypes)
         THEN LET r == Load(converters[i], path)
              IN  [out |-> r[1], err |-> r[2],
                   tested |-> Append(tested, i), loads |-> <<i>>]
         ELSE ConvertLoop(converters, i + 1, mtype, path, Append(tested, i))

\* Marky.Convert(path) without the check of the detection error
ConvertResultUnchecked(converters, path) ==
    ConvertLoop(converters, 1, DetectFile(path)[1], path, <<>>)

\* Marky.Convert(path) on the registry converters
ConvertResult(converters, path) ==
    LET d == DetectFile(path)
    IN  IF d[2] # NilErr
        THEN [out |-> "", err |-> Wrap("failed to detect MIME type", d[2]),
              tested |-> <<>>, loads |-> <<>>]
        ELSE ConvertLoop(converters, 1, d[1], path, <<>>)

\* RegisterConverter putting the new converter first
RegisterResultPrepend(converters, converter) == <<converter>> \o converters

\* Marky.RegisterConverter(converter), the new value of m.Converters
RegisterResult(converters, converter) == Append(converters, converter)

MaxConverters == 3

NoCall ==
    [op |-> "none", path |-> "", converter |-> "", out |-> "", err |-> NilErr,
     tested |-> <<>>, loads |-> <<>>]

InitDispatch ==
    /\ Converters = <<>>
    /\ last = NoCall
    /\ rows = <<>>
    /\ tableOut = ""
    /\ tpc = "idle"
    /\ detections = <<>>
    /\ OfficeIdle

RegisterConverter(converter) ==
    /\ Len(Converters) < MaxConverters
    /\ Converters' = RegisterResult(Converters, converter)
    /\ last' = [NoCall EXCEPT !.op = "register", !.converter = converter.name]
    /\ UNCHANGED <<tableVars, mimeVars, officeVars>>

Convert(path) ==
    /\ LET r == ConvertResult(Converters, path)
       IN  last' = [op |-> "convert", path |-> path, converter |-> "",
                    out |-> r.out, err |-> r.err,
                    tested |-> r.tested, loads |-> r.loads]
    /\ UNCHANGED <<Converters, tableVars, mimeVars, officeVars>>

Register == \E converter \in ConverterKinds : RegisterConverter(converter)

ConvertCall == \E path \in Paths : Convert(path)

NextDispatch == Register \/ ConvertCall

SpecDispatch == InitDispatch /\ [][NextDispatch]_vars

(***************************************************************************)
(* The Markdown table renderer (utils.ToMarkdownTable)                     *)
(***************************************************************************)

\* the cell text of ToMarkdownTable without the escaping of pipes
EscapedCellUnescaped(cell) == TrimSpace(cell)

\* strings.ReplaceAll(strings.TrimSpace(cell), "|", "\\|")
EscapedCell(cell) == ReplaceAll(TrimSpace(cell), "|", "\\|")

\* fmt.Fprintf(&buf, " %s |", cell)
FormatCell(cell) == " " \o cell \o " |"

RECURSIVE HeaderCells(_, _)
HeaderCells(row, i) ==
    IF i > Len(row) THEN ""
    ELSE FormatCell(EscapedCell(row[i])) \o HeaderCells(row, i + 1)

RECURSIVE SeparatorCells(_)
SeparatorCells(n) == IF n = 0 THEN "" ELSE " --- |" \o SeparatorCells(n - 1)

\* the cells of one data row, written for as many columns as the row itself has
RECURSIVE DataCellsOwnWidth(_, _, _)
DataCellsOwnWidth(row, i, headerColCount) ==
    IF i > Len(row) THEN ""
    ELSE FormatCell(EscapedCell(row[i]))
            \o DataCellsOwnWidth(row, i + 1, headerColCount)

\* the inner loop over range headerColCount, from column i on (1-based)
RECURSIVE DataCells(_, _, _)
DataCells(row, i, headerColCount) ==
    IF i > headerColCount THEN ""
    ELSE FormatCell(IF i <= Len(row) THEN EscapedCell(row[i]) ELSE "")
            \o DataCells(row, i + 1, headerColCount)

RECURSIVE DataRows(_, _, _)
DataRows(rs, k, headerColCount) ==
    IF k > Len(rs) THEN ""
    ELSE "|" \o DataCells(rs[k], 1, headerColCount) \o "\n"
            \o DataRows(rs, k + 1, headerColCount)

\* ToMarkdownTable(rows)
ToMarkdownTable(rs) ==
    IF Len(rs) = 0 THEN ""
    ELSE IF Len(rs[1]) = 0 THEN ""
    ELSE LET headerColCount == Len(rs[1])
         IN  "|" \o HeaderCells(rs[1], 1)
                 \o "\n|" \o SeparatorCells(headerColCount) \o "\n"
                 \o (IF Len(rs) > 1 THEN DataRows(rs, 2, headerColCount) ELSE "")

\* the cells the tables are made of: one with pipes, one with an embedded newline
\* inside leading and trailing white space
Cells == {"x|y|", " c\nd\n"}

MaxCols == 2
MaxDataRows == 2

RowsOfLength(lens) == UNION {[1..n -> Cells] : n \in lens}

\* the lengths of the data rows under a header of h cells: no cell at all, one
\* cell short, as long as the header, one cell longer
DataRowLengths(h) == {0} \cup {n \in (h - 1)..(h + 1) : n >= 0}

\* the row sets handed to the renderer: no rows at all, or a header row of up to
\* MaxCols cells and up to MaxDataRows data rows
IsTableInput(rs) ==
    \/ rs = <<>>
    \/ \E header \in RowsOfLength(0..MaxCols) :
          \E n \in 0..MaxDataRows :
             \E data \in [1..n -> RowsOfLength(DataRowLengths(Len(header)))] :
                rs = <<header>> \o data

InitTable ==
    /\ IsTableInput(rows)
    /\ tableOut = ""
    /\ tpc = "input"
    /\ Converters = <<>>
    /\ last = NoCall
    /\ detections = <<>>
    /\ OfficeIdle

Render ==
    /\ tpc = "input"
    /\ tableOut' = ToMarkdownTable(rows)
    /\ tpc' = "done"
    /\ UNCHANGED <<rows, dispatchVars, mimeVars, officeVars>>

NextTable == Render

SpecTable == InitTable /\ [][NextTable]_vars

(***************************************************************************)
(* The MIME sniffer (mimetypes.DetectMimeType). Bytes are their values.    *)
(***************************************************************************)

zipSignature == <<80, 75, 3, 4>>
pdfSignature == <<37, 80, 68, 70>>
oleSignature == <<208, 207, 17, 224, 161, 177, 26, 225>>

mimeDocx == "application/vnd.openxmlformats-officedocument.wordprocessingml.document"
mimeXlsx == "application/vnd.openxmlformats-officedocument.spreadsheetml.sheet"
mimePptx == "application/vnd.openxmlformats-officedocument.presentationml.presentation"
mimePdf == "application/pdf"
mimeDoc == "application/msword"
mimeXls == "application/vnd.ms-excel"
mimePpt == "application/vnd.ms-powerpoint"
mimeCsv == "text/csv"
mimeHTML == "text/html"
mimeXML == "application/xml"
mimeIpynb == "application/x-ipynb+json"
mimeEpub == "application/epub+zip"

\* net/http: the bytes DetectContentType skips before an HTML or XML signature
IsWhitespaceByte(b) == b \in {9, 10, 12, 13, 32}

\* net/http: the bytes that make a sample binary
IsBinaryByte(b) ==
    \/ b <= 8
    \/ b = 11
    \/ (14 <= b /\ b <= 26)
    \/ (28 <= b /\ b <= 31)

RECURSIVE SkipWhitespace(_)
SkipWhitespace(data) ==
    IF data # <<>> /\ IsWhitespaceByte(Head(data))
    THEN SkipWhitespace(Tail(data))
    ELSE data

\* an ASCII letter's upper-case byte
UpperByte(b) == IF 97 <= b /\ b <= 122 THEN b - 32 ELSE b

\* net/http htmlSig.match for the signature "<HTML": case-insensitive, and
\* followed by a blank or by '>'
MatchesHtmlSig(data) ==
    /\ Len(data) >= 6
    /\ [k \in 1..5 |-> UpperByte(data[k])] = <<60, 72, 84, 77, 76>>
    /\ data[6] \in {32, 62}

\* http.DetectContentType(sample), on the signatures the sniffer's inputs can
\* meet, in the order of net/http's table
DetectContentType(sample) ==
    LET fromText == SkipWhitespace(sample)
    IN  IF MatchesHtmlSig(fromText) THEN "text/html; charset=utf-8"
        ELSE IF HasPrefix(fromText, <<60, 63, 120, 109, 108>>)
             THEN "text/xml; charset=utf-8"
        ELSE IF HasPrefix(sample, <<37, 80, 68, 70, 45>>) THEN "application/pdf"
        ELSE IF HasPrefix(sample, <<80, 75, 3, 4>>) THEN "application/zip"
        ELSE IF \A k \in 1..Len(fromText) : ~IsBinaryByte(fromText[k])
             THEN "text/plain; charset=utf-8"
        ELSE "application/octet-stream"

\* enhanceMimeTypeDetection with the .epub case missing from the ZIP switch
enhanceMimeTypeDetectionNoEpub(data, ext, detectedType) ==
    IF HasPrefix(data, zipSignature) /\ ext \in {".docx", ".xlsx", ".pptx"}
    THEN CASE ext = ".docx" -> mimeDocx
           [] ext = ".xlsx" -> mimeXlsx
           [] ext = ".pptx" -> mimePptx
    ELSE IF HasPrefix(data, pdfSignature) THEN mimePdf
    ELSE detectedType

\* enhanceMimeTypeDetection trusting the extension of a text format whatever the
\* detected type is
enhanceMimeTypeDetectionExtensionAlone(data, ext, detectedType) ==
    IF HasPrefix(data, zipSignature) /\ ext \in {".docx", ".xlsx", ".pptx", ".epub"}
    THEN CASE ext = ".docx" -> mimeDocx
           [] ext = ".xlsx" -> mimeXlsx
           [] ext = ".pptx" -> mimePptx
           [] ext = ".epub" -> mimeEpub
    ELSE IF HasPrefix(data, pdfSignature) THEN mimePdf
    ELSE IF HasPrefix(data, oleSignature) /\ ext \in {".doc", ".xls", ".ppt"}
    THEN CASE ext = ".doc" -> mimeDoc
           [] ext = ".xls" -> mimeXls
           [] ext = ".ppt" -> mimePpt
    ELSE IF ext \in {".csv", ".html", ".htm", ".xml", ".ipynb"}
    THEN CASE ext = ".csv" -> mimeCsv
           [] ext \in {".html", ".htm"} -> mimeHTML
           [] ext = ".xml" -> mimeXML
           [] ext = ".ipynb" -> mimeIpynb
    ELSE detectedType

\* enhanceMimeTypeDetection(data, ext, detectedType)
enhanceMimeTypeDetection(data, ext, detectedType) ==
    IF HasPrefix(data, zipSignature) /\ ext \in {".docx", ".xlsx", ".pptx", ".epub"}
    THEN CASE ext = ".docx" -> mimeDocx
           [] ext = ".xlsx" -> mimeXlsx
           [] ext = ".pptx" -> mimePptx
           [] ext = ".epub" -> mimeEpub
    ELSE IF HasPrefix(data, pdfSignature) THEN mimePdf
    ELSE IF HasPrefix(data, oleSignature) /\ ext \in {".doc", ".xls", ".ppt"}
    THEN CASE ext = ".doc" -> mimeDoc
           [] ext = ".xls" -> mimeXls
           [] ext = ".ppt" -> mimePpt
    ELSE IF HasPrefix(detectedType, "text/")
            /\ ext \in {".csv", ".html", ".htm", ".xml", ".ipynb"}
    THEN CASE ext = ".csv" -> mimeCsv
           [] ext \in {".html", ".htm"} -> mimeHTML
           [] ext = ".xml" -> mimeXML
           [] ext = ".ipynb" -> mimeIpynb
    ELSE detectedType

\* the sample size of DetectMimeType
sampleLimit == 512

Min(a, b) == IF a < b THEN a ELSE b

\* the extension of DetectMimeType, taken from the path as it is spelled
PathExtensionAsSpelled(filePath) == Ext(filePath)

\* ext := strings.ToLower(filepath.Ext(filePath))
PathExtension(filePath) == ToLower(Ext(filePath))

NoInfo == [MimeType |-> "", Extension |-> ""]

\* DetectMimeType with the sample taken from the end of the file
DetectMimeTypeResultTailSample(filePath, data) ==
    LET sampleSize == Min(Len(data), sampleLimit)
        sample == SubSeq(data, Len(data) - sampleSize + 1, Len(data))
        ext == PathExtension(filePath)
        contentType == DetectContentType(sample)
    IN  <<[MimeType |-> enhanceMimeTypeDetection(sample, ext, contentType),
           Extension |-> ext],
          NilErr>>

\* DetectMimeType(filePath) for a file holding data: <<*MimeTypeInfo, error>>
DetectMimeTypeResult(filePath, data) ==
    LET sample == SubSeq(data, 1, Min(Len(data), sampleLimit))
        ext == PathExtension(filePath)
        contentType == DetectContentType(sample)
    IN  <<[MimeType |-> enhanceMimeTypeDetection(sample, ext, contentType),
           Extension |-> ext],
          NilErr>>

\* DetectMimeType(filePath) when os.ReadFile fails
DetectMimeTypeFailure(filePath) ==
    <<NoInfo,
      Wrap("failed to read file for MIME type detection",
           NewError("open " \o filePath \o ": no such file or directory"))>>

\* sampleLimit bytes of text, the last of them replaced by b, followed by after
LongContent(b, after) ==
    [i \in 1..(sampleLimit + Len(after)) |->
        IF i < sampleLimit THEN 65
        ELSE IF i = sampleLimit THEN b
        ELSE after[i - sampleLimit]]

\* the contents a file may hold
FileContents ==
    { <<80, 75, 3, 4, 20, 0>>,                   \* a ZIP local file header
      <<80, 75, 3>>,                             \* a ZIP signature cut short
      <<37, 80, 68, 70, 45, 49>>,                \* %PDF-1
      <<37, 80, 68, 70>>,                        \* %PDF
      <<208, 207, 17, 224, 161, 177, 26, 225>>,  \* an OLE compound file
      <<97, 44, 98>>,                            \* a,b
      <<32, 60, 104, 116, 109, 108, 62>>,        \* " <html>"
      <<>> }

\* the paths a file may have
MimePaths ==
    { "a.docx", "dir/A.DOCX", "a.xlsx", "a.pptx", "a.Epub", "a.zip", "a.doc",
      "a.xls", "a.ppt", "a.csv", "a.HTM", "a.html", "a.xml", "a.ipynb", "dir.d/a" }

NoDetection == [path |-> "", data |-> <<>>, info |-> NoInfo, err |-> NilErr,
                called |-> FALSE, readable |-> FALSE]

InitMime ==
    /\ detections = [prev |-> NoDetection, cur |-> NoDetection]
    /\ Converters = <<>>
    /\ last = NoCall
    /\ rows = <<>>
    /\ tableOut = ""
    /\ tpc = "idle"
    /\ OfficeIdle

\* a DetectMimeType call on a readable file; detections keeps the last two calls
DetectMimeType(filePath, data) ==
    /\ LET r == DetectMimeTypeResult(filePath, data)
       IN  detections' =
              [prev |-> detections.cur,
               cur |-> [path |-> filePath, data |-> data, info |-> r[1],
                        err |-> r[2], called |-> TRUE, readable |-> TRUE]]
    /\ UNCHANGED <<dispatchVars, tableVars, officeVars>>

\* a DetectMimeType call on a path that cannot be read
DetectMimeTypeUnreadable(filePath) ==
    /\ LET r == DetectMimeTypeFailure(filePath)
       IN  detections' =
              [prev |-> detections.cur,
               cur |-> [path |-> filePath, data |-> <<>>, info |-> r[1],
                        err |-> r[2], called |-> TRUE, readable |-> FALSE]]
    /\ UNCHANGED <<dispatchVars, tableVars, officeVars>>

DetectReadable ==
    \E filePath \in MimePaths : \E data \in FileContents :
        DetectMimeType(filePath, data)

DetectUnreadable == \E filePath \in {"a.docx", "gone.PDF"} :
    DetectMimeTypeUnreadable(filePath)

NextMime == DetectReadable \/ DetectUnreadable

SpecMime == InitMime /\ [][NextMime]_vars

\* files longer than the sample, and the short ones they are compared with
SampleContents ==
    { LongContent(65, <<0>>),                    \* text, then a NUL past the sample
      LongContent(65, <<66>>),                   \* text, then a letter past it
      LongContent(65, <<>>),                     \* exactly sampleLimit bytes of text
      LongContent(0, <<66>>),                    \* a NUL as the sample's last byte
      <<97, 44, 98>>,                            \* a,b
      <<>> }

SamplePaths == { "a.docx", "dir/A.DOCX", "a.csv", "a.HTM", "dir.d/a" }

DetectSampled ==
    \E filePath \in SamplePaths : \E data \in SampleContents :
        DetectMimeType(filePath, data)

NextSample == DetectSampled \/ DetectUnreadable

SpecSample == InitMime /\ [][NextSample]_vars

(***************************************************************************)
(* The DOCX walker (loaders: convertDocxToMarkdown and file.walk).         *)
(* An XML element is a Node: its local name, its attributes in document    *)
(* order, its inner text and its child elements in document order.         *)
(***************************************************************************)

Digits == "0123456789"

IsDigit(c) == \E k \in 1..10 : CharAt(Digits, k) = c

DigitValue(c) == (CHOOSE k \in 1..10 : CharAt(Digits, k) = c) - 1

RECURSIVE ParseDigits(_, _, _)
ParseDigits(s, i, acc) ==
    IF i > Len(s) THEN acc
    ELSE ParseDigits(s, i + 1, acc * 10 + DigitValue(CharAt(s, i)))

\* strconv.Atoi(s): an optional sign and decimal digits (the numerals of the
\* documents are short: none is out of the range of int)
Atoi(s) ==
    LET signed == Len(s) > 0 /\ CharAt(s, 1) \in {"+", "-"}
        digits == IF signed THEN SubSeq(s, 2, Len(s)) ELSE s
    IN  IF Len(digits) = 0 \/ \E i \in 1..Len(digits) : ~IsDigit(CharAt(digits, i))
        THEN [val |-> 0, ok |-> FALSE]
        ELSE [val |-> IF signed /\ CharAt(s, 1) = "-"
                      THEN 0 - ParseDigits(digits, 1, 0)
                      ELSE ParseDigits(digits, 1, 0),
              ok |-> TRUE]

RECURSIVE ItoaNat(_)
ItoaNat(n) ==
    IF n < 10 THEN CharAt(Digits, n + 1)
    ELSE ItoaNat(n \div 10) \o CharAt(Digits, (n % 10) + 1)

\* fmt's %d
Itoa(n) == IF n < 0 THEN "-" \o ItoaNat(0 - n) ELSE ItoaNat(n)

\* strings.Repeat(s, count), for the counts the documents give (none negative)
RECURSIVE Repeat(_, _)
Repeat(s, count) == IF count <= 0 THEN "" ELSE s \o Repeat(s, count - 1)

RECURSIVE escapeFrom(_, _, _)
escapeFrom(s, set, i) ==
    IF i > Len(s) THEN ""
    ELSE (IF \E k \in 1..Len(set) : CharAt(set, k) = CharAt(s, i)
          THEN "\\" \o CharAt(s, i)
          ELSE CharAt(s, i)) \o escapeFrom(s, set, i + 1)

\* escape(s, set): a backslash before every character of s that is in set
escape(s, set) == escapeFrom(s, set, 1)

\* the index of the first element of seq that satisfies Test, 0 when none does
FirstIndex(seq, Test(_)) ==
    IF \E i \in 1..Len(seq) : Test(seq[i])
    THEN CHOOSE i \in 1..Len(seq) :
            Test(seq[i]) /\ \A j \in 1..(i - 1) : ~Test(seq[j])
    ELSE 0

\* type Node
Node(name, attrs, content, nodes) ==
    [XMLName |-> name, Attrs |-> attrs, Content |-> content, Nodes |-> nodes]

\* xml.Attr
XmlAttr(name, value) == [Local |-> name, Value |-> value]

\* attr(attrs, name): <<value, ok>>
attr(attrs, name) ==
    LET i == FirstIndex(attrs, LAMBDA a : a.Local = name)
    IN  IF i = 0 THEN <<"", FALSE>> ELSE <<attrs[i].Value, TRUE>>

\* handleIndentation(n, w): what it writes
handleIndentation(n) ==
    LET left == attr(n.Attrs, "left")
        i == Atoi(left[1])
    IN  IF left[2] /\ i.ok /\ i.val > 0 THEN Repeat("  ", i.val \div 360) ELSE ""

\* writeHeading with the numeral taken one character early (val[6:])
writeHeadingOffByOne(val) ==
    LET i == Atoi(SubSeq(val, 7, Len(val)))
    IN  IF i.ok /\ i.val > 0 THEN Repeat("#", i.val) \o " " ELSE ""

\* writeHeading(val, w): what it writes
writeHeading(val) ==
    LET i == Atoi(SubSeq(val, 8, Len(val)))
    IN  IF i.ok /\ i.val > 0 THEN Repeat("#", i.val) \o " " ELSE ""

\* writeNumericHeading(val, w): what it writes
writeNumericHeading(val) ==
    LET i == Atoi(val)
    IN  IF i.ok /\ i.val > 0 THEN Repeat("#", i.val) \o " " ELSE ""

\* handleParagraphStyle(n, w): what it writes, and whether the style is Code
handleParagraphStyle(n) ==
    LET val == attr(n.Attrs, "val")
    IN  IF ~val[2] THEN [out |-> "", code |-> FALSE]
        ELSE IF HasPrefix(val[1], "Heading")
             THEN [out |-> writeHeading(val[1]), code |-> FALSE]
        ELSE IF val[1] = "Code" THEN [out |-> "", code |-> TRUE]
        ELSE [out |-> writeNumericHeading(val[1]), code |-> FALSE]

\* extractNumProperties(n): <<numID, ilvl>>, the last numId and ilvl children
\* that carry a val
RECURSIVE extractNumPropertiesFrom(_, _, _, _)
extractNumPropertiesFrom(nodes, i, numID, ilvl) ==
    IF i > Len(nodes) THEN <<numID, ilvl>>
    ELSE LET val == attr(nodes[i].Attrs, "val")
         IN  IF nodes[i].XMLName = "numId" /\ val[2]
             THEN extractNumPropertiesFrom(nodes, i + 1, val[1], ilvl)
             ELSE IF nodes[i].XMLName = "ilvl" /\ val[2]
             THEN extractNumPropertiesFrom(nodes, i + 1, numID, val[1])
             ELSE extractNumPropertiesFrom(nodes, i + 1, numID, ilvl)

extractNumProperties(n) == extractNumPropertiesFrom(n.Nodes, 1, "", "")

\* what the three lookups return when nothing matches
NoFormat == [numFmt |-> "", start |-> 1, ind |-> 0]

\* processAbstractNumLevel(levels, ilvl)
processAbstractNumLevel(levels, ilvl) ==
    LET k == FirstIndex(levels, LAMBDA ablvl : ablvl.Ilvl = ilvl)
    IN  IF k = 0 THEN NoFormat
        ELSE LET s == Atoi(levels[k].Start)
                 l == Atoi(levels[k].Left)
             IN  [numFmt |-> levels[k].NumFmt,
                  start |-> IF s.ok THEN s.val ELSE 1,
                  ind |-> IF l.ok THEN l.val \div 360 ELSE 0]

\* zf.processAbstractNum(abstractNumID, ilvl)
processAbstractNum(num, abstractNumID, ilvl) ==
    LET k == FirstIndex(num.AbstractNum,
                        LAMBDA abnum : abnum.AbstractNumID = abstractNumID)
    IN  IF k = 0 THEN NoFormat
        ELSE processAbstractNumLevel(num.AbstractNum[k].Lvl, ilvl)

\* zf.findNumberingFormat(numID, ilvl)
findNumberingFormat(num, numID, ilvl) ==
    LET k == FirstIndex(num.Num, LAMBDA n : n.NumID = numID)
    IN  IF k = 0 THEN NoFormat
        ELSE processAbstractNum(num, num.Num[k].AbstractNumID, ilvl)

\* the key of a counter in zf.list
ListKey(numID, ind) == numID \o ":" \o Itoa(ind)

\* zf.writeOrderedList restarting a counter at start when it is below start
writeOrderedListRestarting(list, numID, start, ind) ==
    LET counted(key, next) ==
            [list |-> [k \in DOMAIN list \cup {key} |->
                          IF k = key THEN next ELSE list[k]],
             out |-> Itoa(next) \o ". "]
        count(key) ==
            counted(key, IF key \in DOMAIN list /\ list[key] >= start
                         THEN list[key] + 1 ELSE start)
    IN  count(ListKey(numID, ind))

\* zf.writeOrderedList: the counter map afterwards and what it writes
writeOrderedList(list, numID, start, ind) ==
    LET counted(key, next) ==
            [list |-> [k \in DOMAIN list \cup {key} |->
                          IF k = key THEN next ELSE list[k]],
             out |-> Itoa(next) \o ". "]
        count(key) == counted(key, IF key \in DOMAIN list THEN list[key] + 1 ELSE start)
    IN  count(ListKey(numID, ind))

\* zf.writeNumbering: the counter map afterwards and what it writes
writeNumbering(list, numID, numFmt, start, ind) ==
    LET indented(o) == [list |-> o.list, out |-> Repeat("  ", ind) \o o.out]
    IN  IF numFmt \in {"decimal", "aiueoFullWidth"}
        THEN indented(writeOrderedList(list, numID, start, ind))
        ELSE IF numFmt = "bullet"
        THEN [list |-> list, out |-> Repeat("  ", ind) \o "* "]
        ELSE [list |-> list, out |-> Repeat("  ", ind)]

\* zf.handleNumPr(n, w): the counter map afterwards and what it writes
handleNumPr(num, list, n) ==
    LET write(numID, f) == writeNumbering(list, numID, f.numFmt, f.start, f.ind)
        format(p) == write(p[1], findNumberingFormat(num, p[1], p[2]))
    IN  format(extractNumProperties(n))

\* zf.processPPrNodes(node, w) from child i on: the counter map afterwards, what
\* it writes, and whether a Code style was met
RECURSIVE processPPrNodesFrom(_, _, _, _)
processPPrNodesFrom(num, list, nodes, i) ==
    LET style(st) == [list |-> list, out |-> st.out, code |-> st.code]
        numbered(w) == [list |-> w.list, out |-> w.out, code |-> FALSE]
        here(n) ==
            CASE n.XMLName = "ind" ->
                    [list |-> list, out |-> handleIndentation(n), code |-> FALSE]
              [] n.XMLName = "pStyle" -> style(handleParagraphStyle(n))
              [] n.XMLName = "numPr" -> numbered(handleNumPr(num, list, n))
              [] OTHER -> [list |-> list, out |-> "", code |-> FALSE]
        join(h, rest) ==
            [list |-> rest.list, out |-> h.out \o rest.out, code |-> h.code \/ rest.code]
        next(h) == join(h, processPPrNodesFrom(num, h.list, nodes, i + 1))
    IN  IF i > Len(nodes) THEN [list |-> list, out |-> "", code |-> FALSE]
        ELSE next(here(nodes[i]))

processPPrNodes(num, list, node) == processPPrNodesFrom(num, list, node.Nodes, 1)

\* the backtick character (the first character of the two-character string
\* below), and the fence of a code block
Backtick == SubSeq("`'", 1, 1)
Fence == Backtick \o Backtick \o Backtick

\* the result of a walk step: the file struct afterwards, what was written to w,
\* and the error returned
WalkResult(zf, out, err) == [zf |-> zf, out |-> out, err |-> err]

\* zf with one more event in its log of ZIP entry operations
Logged(zf, event, name) == [zf EXCEPT !.log = Append(@, <<event, name>>)]

\* the index of the last c in s, 0 when there is none
LastIndexOf(s, c) ==
    IF \E i \in 1..Len(s) : CharAt(s, i) = c
    THEN CHOOSE i \in 1..Len(s) :
            CharAt(s, i) = c /\ \A j \in (i + 1)..Len(s) : CharAt(s, j) # c
    ELSE 0

\* filepath.Dir, for the relative targets of the documents
Dir(p) ==
    LET i == LastIndexOf(p, "/")
    IN  IF i = 0 THEN "." ELSE IF i = 1 THEN "/" ELSE SubSeq(p, 1, i - 1)

\* the directories os.MkdirAll cannot create, and the files os.WriteFile cannot
\* write, in the working directory of the process
ReadOnlyDirs == {"ro"}
UnwritableFiles == {"media/locked.png"}

\* b after `b := make([]byte, f.UncompressedSize64); n, err := rc.Read(b)`: one
\* Read fills b from the front with what the reader has at hand, all of the
\* entry or (Read = "short") the part of it the decompressor has flushed, here
\* its first half; the rest of b keeps the zeros make gave it
ReadOnce(f) ==
    IF f.Read = "short"
    THEN [i \in 1..Len(f.Value) |-> IF i <= Len(f.Value) \div 2 THEN f.Value[i] ELSE 0]
    ELSE f.Value

\* zf.extract(rel, w), embed being false as convertDocxToMarkdown leaves it
extract(zf, rel) ==
    IF Dir(rel.Target) \in ReadOnlyDirs
    THEN WalkResult(zf, "", NewError("mkdir " \o Dir(rel.Target) \o ": permission denied"))
    ELSE LET k == FirstIndex(zf.r, LAMBDA f : f.Name = "word/" \o rel.Target)
         IN  IF k = 0 THEN WalkResult(zf, "", NilErr)
             ELSE IF ~zf.r[k].Open
             THEN WalkResult(zf, "", NewError("zip: unsupported compression algorithm"))
             ELSE IF zf.r[k].Read \notin {"ok", "short"}
             THEN WalkResult(Logged(Logged(zf, "open", zf.r[k].Name),
                                    "close", zf.r[k].Name),
                             "", NewError("zip: checksum error"))
             ELSE IF rel.Target \in UnwritableFiles
             THEN WalkResult(Logged(Logged(Logged(zf, "open", zf.r[k].Name),
                                           "consumed", zf.r[k].Name),
                                    "close", zf.r[k].Name),
                             "", NewError("open " \o rel.Target \o ": permission denied"))
             ELSE WalkResult(
                     [Logged(Logged(Logged(zf, "open", zf.r[k].Name),
                                    "consumed", zf.r[k].Name),
                             "close", zf.r[k].Name)
                        EXCEPT !.disk = [t \in DOMAIN zf.disk \cup {rel.Target} |->
                                            IF t = rel.Target THEN ReadOnce(zf.r[k])
                                            ELSE zf.disk[t]]],
                     "![](" \o escape(rel.Target, "()") \o ")", NilErr)

RECURSIVE walk(_, _)

\* the loop `for _, n := range nodes { if err := zf.walk(&n, w) ... }` from i on
RECURSIVE walkNodes(_, _, _)
walkNodes(zf, nodes, i) ==
    LET join(r, rest) == WalkResult(rest.zf, r.out \o rest.out, rest.err)
        next(r) == IF r.err # NilErr THEN r ELSE join(r, walkNodes(r.zf, nodes, i + 1))
    IN  IF i > Len(nodes) THEN WalkResult(zf, "", NilErr) ELSE next(walk(zf, nodes[i]))

\* zf.handleHyperlink(node, w) with the target written as it stands
handleHyperlinkRawTarget(zf, node) ==
    LET id == attr(node.Attrs, "id")
        target(k) == IF id[2] /\ k # 0 THEN zf.rels[k].Target ELSE ""
        link(r, t) ==
            IF r.err # NilErr THEN WalkResult(r.zf, "[", r.err)
            ELSE WalkResult(r.zf, "[" \o escape(r.out, "[]") \o "](" \o t \o ")", NilErr)
    IN  link(walkNodes(zf, node.Nodes, 1),
             target(FirstIndex(zf.rels, LAMBDA rel : rel.ID = id[1])))

\* zf.handleHyperlink(node, w)
handleHyperlink(zf, node) ==
    LET id == attr(node.Attrs, "id")
        target(k) == IF id[2] /\ k # 0 THEN escape(zf.rels[k].Target, "()") ELSE ""
        link(r, t) ==
            IF r.err # NilErr THEN WalkResult(r.zf, "[", r.err)
            ELSE WalkResult(r.zf, "[" \o escape(r.out, "[]") \o "](" \o t \o ")", NilErr)
    IN  link(walkNodes(zf, node.Nodes, 1),
             target(FirstIndex(zf.rels, LAMBDA rel : rel.ID = id[1])))

\* zf.handlePPr(node, w)
handlePPr(zf, node) ==
    LET closed(p, tick, r) ==
            IF r.err # NilErr THEN WalkResult(r.zf, p.out \o tick \o r.out, r.err)
            ELSE WalkResult(r.zf, p.out \o tick \o r.out \o tick, NilErr)
        opened(p) ==
            closed(p, IF p.code THEN Backtick ELSE "",
                   walkNodes([zf EXCEPT !.list = p.list], node.Nodes, 1))
    IN  opened(processPPrNodes(zf.num, zf.list, node))

\* zf.handleR(node, w) with the closing markers written in the order of the
\* opening ones
handleRCloseInOpenOrder(zf, node) ==
    LET has(name) ==
            \E i \in 1..Len(node.Nodes) :
                /\ node.Nodes[i].XMLName = "rPr"
                /\ \E j \in 1..Len(node.Nodes[i].Nodes) :
                      node.Nodes[i].Nodes[j].XMLName = name
        open == (IF has("strike") THEN "~~" ELSE "")
                   \o (IF has("b") THEN "**" ELSE "")
                   \o (IF has("i") THEN "*" ELSE "")
        marked(r) ==
            IF r.err # NilErr THEN WalkResult(r.zf, open, r.err)
            ELSE WalkResult(r.zf, open \o escape(r.out, "*~\\") \o open, NilErr)
    IN  marked(walkNodes(zf, node.Nodes, 1))

\* zf.handleR(node, w)
handleR(zf, node) ==
    LET has(name) ==
            \E i \in 1..Len(node.Nodes) :
                /\ node.Nodes[i].XMLName = "rPr"
                /\ \E j \in 1..Len(node.Nodes[i].Nodes) :
                      node.Nodes[i].Nodes[j].XMLName = name
        open == (IF has("strike") THEN "~~" ELSE "")
                   \o (IF has("b") THEN "**" ELSE "")
                   \o (IF has("i") THEN "*" ELSE "")
        close == (IF has("i") THEN "*" ELSE "")
                    \o (IF has("b") THEN "**" ELSE "")
                    \o (IF has("strike") THEN "~~" ELSE "")
        marked(r) ==
            IF r.err # NilErr THEN WalkResult(r.zf, open, r.err)
            ELSE WalkResult(r.zf, open \o escape(r.out, "*~\\") \o close, NilErr)
    IN  marked(walkNodes(zf, node.Nodes, 1))

\* the loop of zf.handleBlip over zf.rels from i on: every relationship with the
\* id is extracted
RECURSIVE handleBlipFrom(_, _, _)
handleBlipFrom(zf, id, i) ==
    LET join(r, rest) == WalkResult(rest.zf, r.out \o rest.out, rest.err)
        next(r) == IF r.err # NilErr THEN r ELSE join(r, handleBlipFrom(r.zf, id, i + 1))
    IN  IF i > Len(zf.rels) THEN WalkResult(zf, "", NilErr)
        ELSE IF zf.rels[i].ID # id THEN handleBlipFrom(zf, id, i + 1)
        ELSE next(extract(zf, zf.rels[i]))

\* zf.handleBlip(node, w)
handleBlip(zf, node) ==
    LET id == attr(node.Attrs, "embed")
    IN  IF id[2] THEN handleBlipFrom(zf, id[1], 1) ELSE WalkResult(zf, "", NilErr)

\* zf.extractTableColumns(tr) from child i on: <<file struct afterwards, cells>>;
\* a cell whose walk fails is left empty and the error is dropped
RECURSIVE extractTableColumns(_, _, _)
extractTableColumns(zf, tr, i) ==
    LET col(r) == IF r.err # NilErr THEN "" ELSE ReplaceAll(r.out, "\n", "")
        cons(c, rest) == <<rest[1], <<c>> \o rest[2]>>
        next(r) == cons(col(r), extractTableColumns(r.zf, tr, i + 1))
    IN  IF i > Len(tr.Nodes) THEN <<zf, <<>>>>
        ELSE IF tr.Nodes[i].XMLName # "tc" THEN extractTableColumns(zf, tr, i + 1)
        ELSE next(walk(zf, tr.Nodes[i]))

\* zf.extractTableRows(node) from child i on: <<file struct afterwards, rows>>
RECURSIVE extractTableRows(_, _, _)
extractTableRows(zf, node, i) ==
    LET cons(cols, rest) ==
            <<rest[1], (IF Len(cols[2]) > 0 THEN <<cols[2]>> ELSE <<>>) \o rest[2]>>
        next(cols) == cons(cols, extractTableRows(cols[1], node, i + 1))
    IN  IF i > Len(node.Nodes) THEN <<zf, <<>>>>
        ELSE IF node.Nodes[i].XMLName # "tr" THEN extractTableRows(zf, node, i + 1)
        ELSE next(extractTableColumns(zf, node.Nodes[i], 1))

\* utils.StringWidth, for cells of printable ASCII
StringWidth(s) == Len(s)

Max(a, b) == IF a > b THEN a ELSE b

\* calculateMaxColumns(rows)
RECURSIVE calculateMaxColumns(_)
calculateMaxColumns(rs) ==
    IF rs = <<>> THEN 0 ELSE Max(Len(Head(rs)), calculateMaxColumns(Tail(rs)))

\* calculateColumnWidths(rows, maxcol)
calculateColumnWidths(rs, maxcol) ==
    [j \in 1..maxcol |->
        LET widths == {StringWidth(rs[i][j]) : i \in {k \in 1..Len(rs) : j <= Len(rs[k])}}
        IN  CHOOSE m \in widths \cup {0} : \A x \in widths : x <= m]

\* the `for j := range maxcol` loops of the table writers, from column j on
RECURSIVE TableLine(_, _, _)
TableLine(cell(_), maxcol, j) ==
    IF j > maxcol THEN "|\n" ELSE "|" \o cell(j) \o TableLine(cell, maxcol, j + 1)

\* writeTableHeader(widths, maxcol, w)
writeTableHeader(widths, maxcol) ==
    TableLine(LAMBDA j : Repeat(" ", widths[j]), maxcol, 1)
       \o TableLine(LAMBDA j : Repeat("-", widths[j]), maxcol, 1)

\* writeTableRow(row, widths, maxcol, w)
writeTableRow(row, widths, maxcol) ==
    TableLine(LAMBDA j : IF j <= Len(row)
                         THEN escape(row[j], "|")
                                 \o Repeat(" ", widths[j] - StringWidth(row[j]))
                         ELSE Repeat(" ", widths[j]),
              maxcol, 1)

RECURSIVE writeTableRows(_, _, _, _)
writeTableRows(rs, widths, maxcol, i) ==
    IF i > Len(rs) THEN ""
    ELSE writeTableRow(rs[i], widths, maxcol) \o writeTableRows(rs, widths, maxcol, i + 1)

\* writeMarkdownTable with the first row written before the separator row
writeMarkdownTableFirstRowHeader(rs, widths, maxcol) ==
    IF rs = <<>> THEN "\n"
    ELSE writeTableRow(rs[1], widths, maxcol)
            \o TableLine(LAMBDA j : Repeat("-", widths[j]), maxcol, 1)
            \o writeTableRows(rs, widths, maxcol, 2) \o "\n"

\* writeMarkdownTable(rows, widths, maxcol, w)
writeMarkdownTable(rs, widths, maxcol) ==
    (IF rs = <<>> THEN "" ELSE writeTableHeader(widths, maxcol))
       \o writeTableRows(rs, widths, maxcol, 1) \o "\n"

\* zf.handleTbl(node, w)
handleTbl(zf, node) ==
    LET render(rs, maxcol) ==
            writeMarkdownTable(rs, calculateColumnWidths(rs, maxcol), maxcol)
        table(x) ==
            IF Len(x[2]) = 0 THEN WalkResult(x[1], "", NilErr)
            ELSE WalkResult(x[1], render(x[2], calculateMaxColumns(x[2])), NilErr)
    IN  table(extractTableRows(zf, node, 1))

\* zf.walk(node, w) without the rule of Fallback, whose children are walked
walkIntoFallback(zf, node) ==
    LET paragraph(r) ==
            IF r.err # NilErr THEN r ELSE WalkResult(r.zf, r.out \o "\n", NilErr)
        textbox(r) ==
            IF r.err # NilErr THEN WalkResult(r.zf, "", r.err)
            ELSE WalkResult(r.zf, "\n" \o Fence \o "\n" \o r.out \o Fence \o "\n", NilErr)
    IN  CASE node.XMLName = "hyperlink" -> handleHyperlink(zf, node)
          [] node.XMLName = "t" -> WalkResult(zf, node.Content, NilErr)
          [] node.XMLName = "pPr" -> handlePPr(zf, node)
          [] node.XMLName = "tbl" -> handleTbl(zf, node)
          [] node.XMLName = "r" -> handleR(zf, node)
          [] node.XMLName = "p" -> paragraph(walkNodes(zf, node.Nodes, 1))
          [] node.XMLName = "blip" -> handleBlip(zf, node)
          [] node.XMLName = "txbxContent" -> textbox(walkNodes(zf, node.Nodes, 1))
          [] OTHER -> walkNodes(zf, node.Nodes, 1)

\* zf.walk(node, w)
walk(zf, node) ==
    LET paragraph(r) ==
            IF r.err # NilErr THEN r ELSE WalkResult(r.zf, r.out \o "\n", NilErr)
        textbox(r) ==
            IF r.err # NilErr THEN WalkResult(r.zf, "", r.err)
            ELSE WalkResult(r.zf, "\n" \o Fence \o "\n" \o r.out \o Fence \o "\n", NilErr)
    IN  CASE node.XMLName = "hyperlink" -> handleHyperlink(zf, node)
          [] node.XMLName = "t" -> WalkResult(zf, node.Content, NilErr)
          [] node.XMLName = "pPr" -> handlePPr(zf, node)
          [] node.XMLName = "tbl" -> handleTbl(zf, node)
          [] node.XMLName = "r" -> handleR(zf, node)
          [] node.XMLName = "p" -> paragraph(walkNodes(zf, node.Nodes, 1))
          [] node.XMLName = "blip" -> handleBlip(zf, node)
          [] node.XMLName = "Fallback" -> WalkResult(zf, "", NilErr)
          [] node.XMLName = "txbxContent" -> textbox(walkNodes(zf, node.Nodes, 1))
          [] OTHER -> walkNodes(zf, node.Nodes, 1)

\* a ZIP entry (zip.File): its name, whether f.Open succeeds, how reading it
\* ends ("ok", "truncated": an error before the end, "checksum": every byte,
\* then zip.ErrChecksum, or "short": every byte and no error, in more than one
\* Read), whether its content is well-formed XML, and the value
\* xml.Unmarshal builds from it (for a media part: its bytes)
ZipFile(name, open, read, wellformed, value) ==
    [Name |-> name, Open |-> open, Read |-> read, Wellformed |-> wellformed,
     Value |-> value]

RelsNames == {"word/_rels/document.xml.rels", "word/_rels/document2.xml.rels"}

\* var num Numbering, before anything is unmarshalled into it
NoNumbering == [AbstractNum |-> <<>>, Num |-> <<>>]

\* the locals of convertDocxToMarkdown before its loop over r.File
NoParts ==
    [rels |-> <<>>, num |-> NoNumbering, log |-> << <<"open", "archive">> >>,
     deferred |-> <<>>, outcome |-> "ok", err |-> NilErr]

\* the loop of convertDocxToMarkdown over r.File, from entry i on. f.Open's error
\* is looked at only after `defer rc.Close()` and io.ReadAll(rc): when f.Open
\* fails rc is nil and the deferred call panics; io.ReadAll's own error is dropped
RECURSIVE readParts(_, _, _)
readParts(files, i, st) ==
    IF i > Len(files) THEN st
    ELSE IF files[i].Name \notin RelsNames \cup {"word/numbering.xml"}
    THEN readParts(files, i + 1, st)
    ELSE IF ~files[i].Open THEN [st EXCEPT !.outcome = "panic"]
    ELSE LET f == files[i]
             read == [st EXCEPT
                        !.log = @ \o << <<"open", f.Name>>, <<"consumed", f.Name>> >>,
                        !.deferred = <<f.Name>> \o @]
         IN  IF f.Read = "truncated" \/ ~f.Wellformed
             THEN [read EXCEPT !.outcome = "error",
                               !.err = NewError("XML syntax error")]
             ELSE IF f.Name \in RelsNames
             THEN readParts(files, i + 1, [read EXCEPT !.rels = @ \o f.Value])
             ELSE readParts(files, i + 1,
                            [read EXCEPT
                               !.num = [AbstractNum |-> @.AbstractNum \o f.Value.AbstractNum,
                                        Num |-> @.Num \o f.Value.Num]])

\* strings.HasSuffix
HasSuffix(s, suffix) ==
    /\ Len(s) >= Len(suffix)
    /\ SubSeq(s, Len(s) - Len(suffix) + 1, Len(s)) = suffix

\* path.Match("word/document*.xml", name): the star matches no slash
MatchesDocumentPattern(name) ==
    /\ Len(name) >= Len("word/document.xml")
    /\ HasPrefix(name, "word/document")
    /\ HasSuffix(name, ".xml")
    /\ \A i \in (Len("word/document") + 1)..(Len(name) - Len(".xml")) :
          CharAt(name, i) # "/"

\* findFile(files, "word/document*.xml"): the index of the entry, 0 for nil
findFile(files) == FirstIndex(files, LAMBDA f : MatchesDocumentPattern(f.Name))

\* readDocFile(f): <<node, error, log of the entry's operations>>
readDocFile(f) ==
    IF ~f.Open THEN <<Node("", <<>>, "", <<>>),
                      NewError("zip: unsupported compression algorithm"), <<>>>>
    ELSE IF f.Read # "ok"
    THEN <<Node("", <<>>, "", <<>>), NewError("zip: checksum error"),
           << <<"open", f.Name>>, <<"close", f.Name>> >> >>
    ELSE IF ~f.Wellformed
    THEN <<Node("", <<>>, "", <<>>), NewError("XML syntax error"),
           << <<"open", f.Name>>, <<"consumed", f.Name>>, <<"close", f.Name>> >> >>
    ELSE <<f.Value, NilErr,
           << <<"open", f.Name>>, <<"consumed", f.Name>>, <<"close", f.Name>> >> >>

\* the deferred calls of convertDocxToMarkdown, run when it returns: the entry
\* readers last opened first, then the archive
RunDeferred(log, deferred) ==
    log \o [i \in 1..Len(deferred) |-> <<"close", deferred[i]>>]
        \o << <<"close", "archive">> >>

\* list: make(map[string]int), the old map being stale; here the old map is kept
MakeListStale(stale) == stale

\* list: make(map[string]int), whatever map an earlier conversion left behind
MakeList(stale) == <<>>

\* what a call of convertDocxToMarkdown comes to: the string and the error it
\* returns (or that it panicked), the counters and the written files it leaves,
\* and the log of its ZIP operations
DocxResult(out, err, panic, list, disk, log) ==
    [out |-> out, err |-> err, panic |-> panic, list |-> list, disk |-> disk,
     log |-> log]

\* convertDocxToMarkdown(filePath) on the archive a; stale is the counter map
\* left by the conversion before
convertDocxToMarkdown(a, stale) ==
    IF ~a.Opens
    THEN DocxResult("", NewError("zip: not a valid zip file"), FALSE, stale, <<>>, <<>>)
    ELSE LET parts == readParts(a.File, 1, NoParts)
             k == findFile(a.File)
         IN  IF parts.outcome = "panic"
             THEN DocxResult("", NilErr, TRUE, stale, <<>>,
                             RunDeferred(parts.log, parts.deferred))
             ELSE IF parts.outcome = "error"
             THEN DocxResult("", parts.err, FALSE, stale, <<>>,
                             RunDeferred(parts.log, parts.deferred))
             ELSE IF k = 0
             THEN DocxResult("", NewError("incorrect document"), FALSE, stale, <<>>,
                             RunDeferred(parts.log, parts.deferred))
             ELSE LET doc == readDocFile(a.File[k])
                  IN  IF doc[2] # NilErr
                      THEN DocxResult("", doc[2], FALSE, stale, <<>>,
                                      RunDeferred(parts.log \o doc[3], parts.deferred))
                      ELSE LET zf == [r |-> a.File, rels |-> parts.rels,
                                       num |-> parts.num, list |-> MakeList(stale),
                                       disk |-> <<>>, log |-> parts.log \o doc[3]]
                               w == walk(zf, doc[1])
                           IN  DocxResult(IF w.err # NilErr THEN "" ELSE w.out,
                                          w.err, FALSE, w.zf.list, w.zf.disk,
                                          RunDeferred(w.zf.log, parts.deferred))

(***************************************************************************)
(* DOCX files: the parts of the archive and the elements of the document.  *)
(***************************************************************************)

\* <w:r><w:t>text</w:t></w:r>
Run(text) == Node("r", <<>>, "", <<Node("t", <<>>, text, <<>>)>>)

\* a run with <w:rPr><w:b/></w:rPr>
BoldRun(text) ==
    Node("r", <<>>, "",
         <<Node("rPr", <<>>, "", <<Node("b", <<>>, "", <<>>)>>),
           Node("t", <<>>, text, <<>>)>>)

PlainParagraph(text) == Node("p", <<>>, "", <<Run(text)>>)

\* a paragraph with <w:pPr><w:pStyle w:val=style/></w:pPr> and one run
StyledParagraph(style, text) ==
    Node("p", <<>>, "",
         <<Node("pPr", <<>>, "",
                <<Node("pStyle", <<XmlAttr("val", style)>>, "", <<>>)>>),
           Run(text)>>)

\* a paragraph with <w:numPr><w:ilvl/><w:numId/></w:numPr> and one run
ListParagraph(numID, ilvl, text) ==
    Node("p", <<>>, "",
         <<Node("pPr", <<>>, "",
                <<Node("numPr", <<>>, "",
                       <<Node("ilvl", <<XmlAttr("val", ilvl)>>, "", <<>>),
                         Node("numId", <<XmlAttr("val", numID)>>, "", <<>>)>>)>>),
           Run(text)>>)

\* a run holding a drawing whose blip embeds the relationship id
Picture(id) ==
    Node("r", <<>>, "",
         <<Node("drawing", <<>>, "",
                <<Node("blip", <<XmlAttr("embed", id)>>, "", <<>>)>>)>>)

\* <w:tbl> of rows of cells; a cell holds one paragraph with the given children
TableOf(cellRows) ==
    Node("tbl", <<>>, "",
         [i \in 1..Len(cellRows) |->
            Node("tr", <<>>, "",
                 [j \in 1..Len(cellRows[i]) |->
                    Node("tc", <<>>, "",
                         <<Node("p", <<>>, "", <<cellRows[i][j]>>)>>)])])

\* a table whose cells are plain text
TextTable(textRows) ==
    TableOf([i \in 1..Len(textRows) |->
                [j \in 1..Len(textRows[i]) |-> Run(textRows[i][j])]])

\* word/document.xml with the given children of <w:body>
Document(body) ==
    Node("document", <<>>, "", <<Node("body", <<>>, "", body)>>)

\* <w:lvl w:ilvl><w:start/><w:numFmt/><w:pPr><w:ind w:left/></w:pPr></w:lvl>
Lvl(ilvl, start, numFmt, left) ==
    [Ilvl |-> ilvl, Start |-> start, NumFmt |-> numFmt, Left |-> left]

\* word/numbering.xml: instance 1 numbers two levels indented 720 and 1440,
\* instance 2 numbers two levels that carry no indent, instance 3 is bulleted
NumberingPart ==
    [AbstractNum |->
        << [AbstractNumID |-> "0",
            Lvl |-> <<Lvl("0", "1", "decimal", "720"),
                      Lvl("1", "3", "decimal", "1440")>>],
           [AbstractNumID |-> "1",
            Lvl |-> <<Lvl("0", "1", "decimal", ""),
                      Lvl("1", "5", "decimal", "")>>],
           [AbstractNumID |-> "2",
            Lvl |-> <<Lvl("0", "1", "bullet", "720")>>] >>,
     Num |-> << [NumID |-> "1", AbstractNumID |-> "0"],
                [NumID |-> "2", AbstractNumID |-> "1"],
                [NumID |-> "3", AbstractNumID |-> "2"] >>]

\* word/_rels/document.xml.rels
RelsPart ==
    << [ID |-> "rId1", Target |-> "media/image1.png"],
       [ID |-> "rId2", Target |-> "media/bad.png"],
       [ID |-> "rId3", Target |-> "media/crc.png"],
       [ID |-> "rId4", Target |-> "ro/image.png"],
       [ID |-> "rId5", Target |-> "media/locked.png"],
       [ID |-> "rId6", Target |-> "media/missing.png"],
       [ID |-> "rId7", Target |-> "http://x/(a)"],
       [ID |-> "rId8", Target |-> "media/big.png"] >>

\* the media parts: one that cannot be opened, one whose checksum is wrong, one
\* compressed in more than one block, which takes more than one Read
MediaFiles ==
    << ZipFile("word/media/image1.png", TRUE, "ok", TRUE, <<137, 80>>),
       ZipFile("word/media/bad.png", FALSE, "ok", TRUE, <<137, 80>>),
       ZipFile("word/media/crc.png", TRUE, "checksum", TRUE, <<137, 80>>),
       ZipFile("word/ro/image.png", TRUE, "ok", TRUE, <<137, 80>>),
       ZipFile("word/media/locked.png", TRUE, "ok", TRUE, <<137, 80>>),
       ZipFile("word/media/big.png", TRUE, "short", TRUE, <<137, 80, 78, 71>>) >>

\* what can be wrong with an archive: nothing, the archive itself, or one of its
\* three parts (absent, not opening, read cut short, checksum, malformed XML)
Faults ==
    {<<"none", "none">>, <<"archive", "invalid">>}
       \cup ({"rels", "numbering", "document"}
                \X {"absent", "open", "truncated", "checksum", "malformed"})

\* the entry of a part under a fault
PartFile(part, name, value, fault) ==
    IF fault[1] # part THEN <<ZipFile(name, TRUE, "ok", TRUE, value)>>
    ELSE CASE fault[2] = "absent" -> <<>>
           [] fault[2] = "open" -> <<ZipFile(name, FALSE, "ok", TRUE, value)>>
           [] fault[2] = "truncated" -> <<ZipFile(name, TRUE, "truncated", TRUE, value)>>
           [] fault[2] = "checksum" -> <<ZipFile(name, TRUE, "checksum", TRUE, value)>>
           [] fault[2] = "malformed" -> <<ZipFile(name, TRUE, "ok", FALSE, value)>>

\* a DOCX file with the given body and fault; the fault is kept beside the
\* entries to tell the files apart
Archive(body, fault) ==
    [Opens |-> fault[1] # "archive",
     Fault |-> fault,
     Body |-> body,
     File |-> PartFile("rels", "word/_rels/document.xml.rels", RelsPart, fault)
                 \o PartFile("numbering", "word/numbering.xml", NumberingPart, fault)
                 \o PartFile("document", "word/document.xml", Document(body), fault)
                 \o MediaFiles]

MaxListItems == 3
MaxTableRows == 2
MaxRuns == 2

\* the list items of a document: <<numbering instance, level>>
ListItemKinds ==
    {<<"1", "0">>, <<"1", "1">>, <<"2", "0">>, <<"2", "1">>, <<"3", "0">>}

ListBodies ==
    UNION {[1..n -> {ListParagraph(k[1], k[2], "x") : k \in ListItemKinds}] :
             n \in 1..MaxListItems}

\* the style names of a paragraph
StyleNames ==
    {"Heading1", "Heading2", "Heading12", "Heading02", "Heading+2", "Heading",
     "Heading0", "Heading-1", "HeadingX", "Heading 1", "Heading1a", "heading1",
     "1", "3", "+2", "0", "-2", "1.5", "Code", "Title", "Normal", ""}

StyledBodies == {<<StyledParagraph(s, "x"), PlainParagraph("y")>> : s \in StyleNames}

CellTexts == {"A", "B|", "12"}

TableRowsOf ==
    UNION {[1..n -> CellTexts] : n \in 1..2}

TableBodies ==
    UNION {{<<TextTable(t)>> : t \in [1..n -> TableRowsOf]} : n \in 1..MaxTableRows}

ImageIds == {"rId1", "rId2", "rId3", "rId4", "rId5", "rId6", "rId8", "rId9"}

\* a picture in a paragraph of the body, or in a cell of a table
ImageBodies ==
    {<<PlainParagraph("x"), Node("p", <<>>, "", <<Picture(id)>>)>> : id \in ImageIds}
       \cup {<<PlainParagraph("x"), TableOf(<< <<Picture(id), Run("B")>> >>)>> :
                id \in ImageIds}

\* a heading, a bold run and a 2x2 table; a link, a text box and list items
MixedBodies ==
    { <<StyledParagraph("Heading1", "Title"),
        Node("p", <<>>, "", <<BoldRun("Bold text")>>),
        TextTable(<< <<"A", "B">>, <<"1", "2">> >>)>>,
      <<Node("p", <<>>, "",
             <<Node("hyperlink", <<XmlAttr("id", "rId7")>>, "", <<Run("[a]")>>)>>),
        Node("txbxContent", <<>>, "", <<PlainParagraph("box")>>),
        ListParagraph("1", "0", "x"),
        StyledParagraph("Code", "go")>> }

\* the children of <w:rPr> of a run: the flags b, i and strike in several
\* orders, and u, which handleR does not look at
RunFlags ==
    {<<>>, <<"b">>, <<"i">>, <<"strike">>, <<"u">>, <<"b", "i">>, <<"i", "b">>,
     <<"strike", "b">>, <<"i", "u", "strike">>, <<"b", "strike", "i">>,
     <<"i", "b", "strike">>}

\* the text of a run: with and without the characters handleR escapes
RunTexts == {"a", "a*b", "~x", "c\\d", "*~\\", "a_[b]"}

\* <w:r><w:rPr>flags</w:rPr><w:t>text</w:t></w:r>
FlaggedRun(flags, text) ==
    Node("r", <<>>, "",
         <<Node("rPr", <<>>, "", [i \in 1..Len(flags) |-> Node(flags[i], <<>>, "", <<>>)]),
           Node("t", <<>>, text, <<>>)>>)

\* one paragraph holding one run
RunBodies ==
    {<<Node("p", <<>>, "", <<FlaggedRun(f, t)>>)>> : f \in RunFlags, t \in RunTexts}

\* the attributes of a hyperlink: an id with a relationship (to a URL with
\* brackets, to a part), an id without one, an empty id, no id
LinkAttrs ==
    {<<XmlAttr("id", "rId7")>>, <<XmlAttr("id", "rId1")>>, <<XmlAttr("id", "rId99")>>,
     <<XmlAttr("id", "")>>, <<XmlAttr("anchor", "rId7")>>, <<>>}

\* the children of a hyperlink
LinkChildren ==
    {<<Run("a")>>, <<Run("[a]")>>, <<Run("x]y[")>>, <<Run("[a](b)")>>,
     <<BoldRun("b"), Run("[c]")>>, <<>>}

\* one paragraph holding one hyperlink
LinkBodies ==
    {<<Node("p", <<>>, "", <<Node("hyperlink", a, "", c)>>)>> :
        a \in LinkAttrs, c \in LinkChildren}

\* <w:t>text</w:t>
Text(text) == Node("t", <<>>, text, <<>>)

\* elements without children of their own kind: text, an element walk has no
\* rule for, and mc:Fallback holding text and a nested element with text
Leaves ==
    {Text("1"), Text("2"), Node("proofErr", <<>>, "", <<>>),
     Node("Fallback", <<>>, "",
          <<Text("F"), Node("pict", <<>>, "", <<Text("G")>>)>>)}

\* elements walk has no rule for, holding one or two leaves
Wrappers ==
    {Node(name, <<>>, "", c) :
        name \in {"sdt", "AlternateContent"},
        c \in UNION {[1..n -> Leaves] : n \in 1..2}}

\* a body of one element walk has no rule for, holding a wrapper between leaves
OrderBodies ==
    {<<Node("Choice", <<>>, "", <<Text("8"), w, l>>)>> : w \in Wrappers, l \in Leaves}

\* list items with an unnumbered paragraph after the first of them
InterruptedListBodies ==
    {<<a, PlainParagraph("y"), b, c>> :
        a, b, c \in {ListParagraph(k[1], k[2], "x") : k \in ListItemKinds}}

FaultedBody == <<StyledParagraph("Heading1", "Title"), ListParagraph("1", "0", "x")>>

\* the DOCX files conversions are run on
Archives ==
    {Archive(body, <<"none", "none">>) :
        body \in ListBodies \cup StyledBodies \cup TableBodies \cup ImageBodies
                    \cup MixedBodies \cup RunBodies \cup LinkBodies
                    \cup OrderBodies \cup InterruptedListBodies}
       \cup {Archive(FaultedBody, fault) : fault \in Faults}

InitDocx ==
    /\ archive \in Archives
    /\ runs = <<>>
    /\ zfList = <<>>
    /\ ConcIdle
    /\ PptxIdle
    /\ Converters = <<>>
    /\ last = NoCall
    /\ rows = <<>>
    /\ tableOut = ""
    /\ tpc = "idle"
    /\ detections = <<>>

\* one call of convertDocxToMarkdown on the file, after the ones made so far
ConvertDocx ==
    /\ Len(runs) < MaxRuns
    /\ LET result == convertDocxToMarkdown(archive, zfList)
       IN  /\ runs' = Append(runs, result)
           /\ zfList' = result.list
    /\ UNCHANGED <<archive, dispatchVars, tableVars, mimeVars, concVars, pptxVars>>

NextDocx == ConvertDocx

SpecDocx == InitDocx /\ [][NextDocx]_vars

(***************************************************************************)
(* Two conversions at once: convertDocxToMarkdown called on two goroutines *)
(* of one process, which has one working directory.                        *)
(***************************************************************************)

Goroutines == {1, 2}

\* what word/media/image1.png holds in the files converted at once
ImageBytes == {<<137, 80>>, <<255, 216>>}

\* the DOCX file with the given body whose word/media/image1.png holds bytes
ArchiveWithImage(body, bytes) ==
    LET a == Archive(body, <<"none", "none">>)
    IN  [a EXCEPT !.File =
            [i \in DOMAIN a.File |->
                IF a.File[i].Name = "word/media/image1.png"
                THEN [a.File[i] EXCEPT !.Value = bytes]
                ELSE a.File[i]]]

\* the bodies of the files converted at once: a picture, list items, a picture
\* before a list item, a picture before one that cannot be extracted
ConcBodies ==
    { <<PlainParagraph("x"), Node("p", <<>>, "", <<Picture("rId1")>>)>>,
      <<ListParagraph("1", "0", "a"), ListParagraph("1", "0", "b")>>,
      <<Node("p", <<>>, "", <<Picture("rId1")>>), ListParagraph("2", "1", "a")>>,
      <<Node("p", <<>>, "", <<Picture("rId1")>>),
        Node("p", <<>>, "", <<Picture("rId2")>>)>> }

\* the DOCX files converted at once
ConcFiles ==
    {ArchiveWithImage(body, bytes) : body \in ConcBodies, bytes \in ImageBytes}
       \cup {Archive(FaultedBody, fault) :
                fault \in {<<"archive", "invalid">>, <<"rels", "open">>,
                           <<"document", "malformed">>}}

\* a goroutine about to call convertDocxToMarkdown on the file a
Goroutine(a) ==
    [pc |-> "start", file |-> a, zf |-> <<>>, deferred |-> <<>>, body |-> <<>>,
     i |-> 1, out |-> "", result |-> <<>>]

\* a goroutine whose call has returned (or panicked) with the result
Returned(g, result) == [gor EXCEPT ![g].pc = "done", ![g].result = result]

\* convertDocxToMarkdown up to `zf := &file{...}`: the archive is opened, the
\* relationships and the numbering are read, the main part is found and parsed
Begin(g) ==
    /\ gor[g].pc = "start"
    /\ LET a == gor[g].file
           parts == readParts(a.File, 1, NoParts)
           k == findFile(a.File)
           closed == RunDeferred(parts.log, parts.deferred)
       IN  gor' =
             IF ~a.Opens
             THEN Returned(g, DocxResult("", NewError("zip: not a valid zip file"),
                                         FALSE, <<>>, <<>>, <<>>))
             ELSE IF parts.outcome = "panic"
             THEN Returned(g, DocxResult("", NilErr, TRUE, <<>>, <<>>, closed))
             ELSE IF parts.outcome = "error"
             THEN Returned(g, DocxResult("", parts.err, FALSE, <<>>, <<>>, closed))
             ELSE IF k = 0
             THEN Returned(g, DocxResult("", NewError("incorrect document"), FALSE,
                                         <<>>, <<>>, closed))
             ELSE LET doc == readDocFile(a.File[k])
                  IN  IF doc[2] # NilErr
                      THEN Returned(g, DocxResult("", doc[2], FALSE, <<>>, <<>>,
                                                  RunDeferred(parts.log \o doc[3],
                                                              parts.deferred)))
                      ELSE [gor EXCEPT
                              ![g].pc = "walk",
                              ![g].zf = [r |-> a.File, rels |-> parts.rels,
                                         num |-> parts.num, list |-> MakeList(<<>>),
                                         disk |-> <<>>, log |-> parts.log \o doc[3]],
                              ![g].deferred = parts.deferred,
                              ![g].body = doc[1].Nodes[1].Nodes]
    /\ UNCHANGED <<cwd, docxVars, pptxVars, dispatchVars, tableVars, mimeVars>>

\* the files of the working directory after a goroutine wrote some: os.WriteFile
\* replaces what the file held; by is who has written the file so far
WriteFiles(g, written) ==
    [t \in DOMAIN cwd \cup DOMAIN written |->
        IF t \in DOMAIN written
        THEN [bytes |-> written[t],
              by |-> (IF t \in DOMAIN cwd THEN cwd[t].by ELSE {}) \cup {g}]
        ELSE cwd[t]]

\* zf.walk on the next element of the body (one turn of the loop over the nodes
\* of w:body); what zf.extract writes goes to the working directory
WalkElement(g) ==
    /\ gor[g].pc = "walk"
    /\ gor[g].i <= Len(gor[g].body)
    /\ LET me == gor[g]
           w == walk([me.zf EXCEPT !.disk = <<>>], me.body[me.i])
           written == w.zf.disk
           zf == [w.zf EXCEPT !.disk =
                     [t \in DOMAIN me.zf.disk \cup DOMAIN written |->
                         IF t \in DOMAIN written THEN written[t] ELSE me.zf.disk[t]]]
       IN  /\ cwd' = WriteFiles(g, written)
           /\ gor' =
                IF w.err # NilErr
                THEN [Returned(g, DocxResult("", w.err, FALSE, zf.list, zf.disk,
                                             RunDeferred(zf.log, me.deferred)))
                         EXCEPT ![g].zf = zf]
                ELSE [gor EXCEPT ![g].zf = zf, ![g].out = @ \o w.out, ![g].i = @ + 1]
    /\ UNCHANGED <<docxVars, pptxVars, dispatchVars, tableVars, mimeVars>>

\* `return buf.String(), nil` after the last element, and the deferred closes
Return(g) ==
    /\ gor[g].pc = "walk"
    /\ gor[g].i > Len(gor[g].body)
    /\ gor' = Returned(g, DocxResult(gor[g].out, NilErr, FALSE, gor[g].zf.list,
                                     gor[g].zf.disk,
                                     RunDeferred(gor[g].zf.log, gor[g].deferred)))
    /\ UNCHANGED <<cwd, docxVars, pptxVars, dispatchVars, tableVars, mimeVars>>

InitConc ==
    /\ gor \in [Goroutines -> {Goroutine(a) : a \in ConcFiles}]
    /\ cwd = <<>>
    /\ DocxIdle
    /\ PptxIdle
    /\ Converters = <<>>
    /\ last = NoCall
    /\ rows = <<>>
    /\ tableOut = ""
    /\ tpc = "idle"
    /\ detections = <<>>

NextConc == \E g \in Goroutines : Begin(g) \/ WalkElement(g) \/ Return(g)

SpecConc == InitConc /\ [][NextConc]_vars

(***************************************************************************)
(* PPTX: convertToMarkdown and what it calls. A part of the archive is a   *)
(* ZipFile whose Value is what xml.Unmarshal builds from it (for a notes   *)
(* part: Texts, the texts of the a:t elements that the pattern of          *)
(* parseSlideNotes finds in it; for a media part: Bytes, its content).     *)
(***************************************************************************)

\* the concatenation of the strings of a sequence, from the i-th on
RECURSIVE ConcatFrom(_, _)
ConcatFrom(strs, i) == IF i > Len(strs) THEN "" ELSE strs[i] \o ConcatFrom(strs, i + 1)

\* a *TextBody: nil, or its paragraphs, each the texts of its runs
NilTextBody == [Nil |-> TRUE, Paragraphs |-> <<>>]
TextBody(paragraphs) == [Nil |-> FALSE, Paragraphs |-> paragraphs]

\* Slide.Notes before parseSlideNotes sets it
NilNotes == [Nil |-> TRUE, Text |-> ""]

\* extractTextFromTextBody(textBody)
extractTextFromTextBody(textBody) ==
    TrimSpace(ConcatFrom([p \in 1..Len(textBody.Paragraphs) |->
                             ConcatFrom(textBody.Paragraphs[p], 1) \o "\n"], 1))

\* html.EscapeString on one character
EscapeChar(c) ==
    CASE c = "<" -> "&lt;"
      [] c = ">" -> "&gt;"
      [] c = "&" -> "&amp;"
      [] c = "'" -> "&#39;"
      [] c = "\"" -> "&#34;"
      [] OTHER -> c

\* html.EscapeString
EscapeString(s) == ConcatFrom([i \in 1..Len(s) |-> EscapeChar(CharAt(s, i))], 1)

\* one line of convertTableToMarkdown: a pipe, then each cell between blanks
\* and before a pipe
TableRowLine(row) ==
    "|" \o ConcatFrom([c \in 1..Len(row) |->
                          " " \o EscapeString(extractTextFromTextBody(row[c])) \o " |"], 1)
        \o "\n"

\* convertTableToMarkdown(table): table is the rows, each the text bodies of
\* its cells
convertTableToMarkdown(table) ==
    IF Len(table) = 0 THEN ""
    ELSE TableRowLine(table[1])
            \o "|" \o ConcatFrom([c \in 1..Len(table[1]) |-> "---|"], 1) \o "\n"
            \o ConcatFrom([i \in 1..(Len(table) - 1) |-> TableRowLine(table[i + 1])], 1)

\* processTables(tables, markdown)
processTables(tables) ==
    ConcatFrom([t \in 1..Len(tables) |-> convertTableToMarkdown(tables[t])], 1)

\* processShapes(shapes, markdown, isTitle) from the i-th shape on
RECURSIVE processShapesFrom(_, _, _)
processShapesFrom(shapes, i, isTitle) ==
    IF i > Len(shapes) THEN ""
    ELSE IF shapes[i].TextBody.Nil THEN processShapesFrom(shapes, i + 1, isTitle)
    ELSE LET text == extractTextFromTextBody(shapes[i].TextBody)
         IN  IF text = "" THEN processShapesFrom(shapes, i + 1, isTitle)
             ELSE IF isTitle /\ Len(shapes) > 0
             THEN "# " \o TrimSpace(text) \o "\n" \o processShapesFrom(shapes, i + 1, FALSE)
             ELSE text \o "\n" \o processShapesFrom(shapes, i + 1, isTitle)

\* processShapes looking for a title whatever isTitle says
processShapesAlwaysTitle(shapes, isTitle) == processShapesFrom(shapes, 1, TRUE)

processShapes(shapes, isTitle) == processShapesFrom(shapes, 1, isTitle)

\* a word character of regexp \W's complement: a letter, a digit, an underscore
IsWordChar(c) ==
    \/ IsDigit(c)
    \/ c = "_"
    \/ \E k \in 1..26 : CharAt(UpperLetters, k) = c \/ CharAt(LowerLetters, k) = c

\* sanitizeFilename(filename): every non-word character removed
sanitizeFilename(filename) ==
    ConcatFrom([i \in 1..Len(filename) |->
                   IF IsWordChar(CharAt(filename, i)) THEN CharAt(filename, i) ELSE ""], 1)

\* regexp \s on one character
IsRegexpSpace(c) == c \in {" ", "\t", "\n", "\f", "\r"}

\* the alt text of processPics cleaned: line breaks and brackets made blanks,
\* every run of white space made one blank, white space trimmed at both ends
CleanAltText(altText) ==
    LET s == [i \in 1..Len(altText) |->
                 IF CharAt(altText, i) \in {"\r", "\n", "[", "]"} THEN " "
                 ELSE CharAt(altText, i)]
        t == [i \in 1..Len(s) |->
                 IF IsRegexpSpace(s[i])
                 THEN IF i > 1 /\ IsRegexpSpace(s[i - 1]) THEN "" ELSE " "
                 ELSE s[i]]
    IN  TrimSpace(ConcatFrom(t, 1))

\* the alphabet of base64.StdEncoding
Base64Alphabet == "ABCDEFGHIJKLMNOPQRSTUVWXYZabcdefghijklmnopqrstuvwxyz0123456789+/"

Base64Char(k) == CharAt(Base64Alphabet, k + 1)

\* base64.StdEncoding.EncodeToString(b) from the i-th byte on
RECURSIVE EncodeFrom(_, _)
EncodeFrom(b, i) ==
    IF i > Len(b) THEN ""
    ELSE IF i = Len(b)
    THEN Base64Char(b[i] \div 4) \o Base64Char((b[i] % 4) * 16) \o "=="
    ELSE IF i + 1 = Len(b)
    THEN Base64Char(b[i] \div 4)
            \o Base64Char((b[i] % 4) * 16 + b[i + 1] \div 16)
            \o Base64Char((b[i + 1] % 16) * 4) \o "="
    ELSE Base64Char(b[i] \div 4)
            \o Base64Char((b[i] % 4) * 16 + b[i + 1] \div 16)
            \o Base64Char((b[i + 1] % 16) * 4 + b[i + 2] \div 64)
            \o Base64Char(b[i + 2] % 64)
            \o EncodeFrom(b, i + 3)

EncodeToString(b) == EncodeFrom(b, 1)

\* getImageData(zipReader): the bytes of the first entry under ppt/media/ that
\* opens and reads; <<FALSE, ...>> stands for nil
getImageData(files) ==
    LET k == FirstIndex(files, LAMBDA f : /\ HasPrefix(f.Name, "ppt/media/")
                                          /\ f.Open /\ f.Read = "ok")
    IN  IF k = 0 THEN <<FALSE, <<>>>> ELSE <<TRUE, files[k].Value.Bytes>>

\* processPics(pics, markdown, zipReader, options) with KeepDataURIs set, as
\* Load sets it
processPics(pics, files) ==
    ConcatFrom(
       [p \in 1..Len(pics) |->
           LET altText == CleanAltText(IF pics[p].Descr = "" THEN pics[p].Name
                                       ELSE pics[p].Descr)
               imageData == getImageData(files)
           IN  IF pics[p].Embed # "" /\ imageData[1]
               THEN "\n![" \o altText \o "](data:image/png;base64,"
                       \o EncodeToString(imageData[2]) \o ")\n"
               ELSE "\n![" \o altText \o "](" \o sanitizeFilename(altText) \o ".jpg)\n"],
       1)

\* processGroups(groups, markdown, zipReader, options)
processGroups(groups, files) ==
    ConcatFrom([g \in 1..Len(groups) |->
                   processShapes(groups[g].Shapes, FALSE)
                      \o processPics(groups[g].Pics, files)
                      \o processTables(groups[g].Tables)], 1)

\* convertSlidesToMarkdown with the slides numbered from 0
convertSlidesToMarkdownFromZero(slides, files) ==
    ConcatFrom(
       [i \in 1..Len(slides) |->
           "\n\n<!-- Slide number: " \o Itoa(i - 1) \o " -->\n"
              \o processShapes(slides[i].Shapes, TRUE)
              \o processPics(slides[i].Pics, files)
              \o processTables(slides[i].Tables)
              \o processGroups(slides[i].Groups, files)
              \o (IF ~slides[i].Notes.Nil /\ slides[i].Notes.Text # ""
                  THEN "\n\n### Notes:\n" \o slides[i].Notes.Text
                  ELSE "")],
       1)

\* convertSlidesToMarkdown(slides, zipReader, options)
convertSlidesToMarkdown(slides, files) ==
    ConcatFrom(
       [i \in 1..Len(slides) |->
           "\n\n<!-- Slide number: " \o Itoa(i) \o " -->\n"
              \o processShapes(slides[i].Shapes, TRUE)
              \o processPics(slides[i].Pics, files)
              \o processTables(slides[i].Tables)
              \o processGroups(slides[i].Groups, files)
              \o (IF ~slides[i].Notes.Nil /\ slides[i].Notes.Text # ""
                  THEN "\n\n### Notes:\n" \o slides[i].Notes.Text
                  ELSE "")],
       1)

\* parseSlideNotes taking the text of a part whatever reading it came to
parseSlideNotesIgnoringReadError(files, notesFile, slide) ==
    LET k == FirstIndex(files, LAMBDA f : f.Name = notesFile)
    IN  IF k = 0 \/ ~files[k].Open THEN slide
        ELSE LET notesText == ConcatFrom([m \in 1..Len(files[k].Value.Texts) |->
                                             files[k].Value.Texts[m] \o " "], 1)
             IN  IF Len(notesText) > 0
                 THEN [slide EXCEPT !.Notes = [Nil |-> FALSE, Text |-> TrimSpace(notesText)]]
                 ELSE slide

\* parseSlideNotes(zipReader, notesFile, slide): the slide with its notes set,
\* or as it was
parseSlideNotes(files, notesFile, slide) ==
    LET k == FirstIndex(files, LAMBDA f : f.Name = notesFile)
    IN  IF k = 0 \/ ~files[k].Open \/ files[k].Read # "ok" THEN slide
        ELSE LET notesText == ConcatFrom([m \in 1..Len(files[k].Value.Texts) |->
                                             files[k].Value.Texts[m] \o " "], 1)
             IN  IF Len(notesText) > 0
                 THEN [slide EXCEPT !.Notes = [Nil |-> FALSE, Text |-> TrimSpace(notesText)]]
                 ELSE slide

\* type Group: the elements sp, pic and graphicFrame of a <p:grpSp>
Group(shapes, pics, tables) == [Shapes |-> shapes, Pics |-> pics, Tables |-> tables]

\* what xml.Unmarshal builds from a <p:grpSp>: type Group has no field for the
\* grpSp elements inside it, and an element without a field is skipped
UnmarshalGroup(g) == Group(g.Shapes, g.Pics, g.Tables)

\* what xml.Unmarshal(data, &slide) builds from the content of a slide part
UnmarshalSlide(xml) ==
    [xml EXCEPT !.Groups = [g \in 1..Len(xml.Groups) |-> UnmarshalGroup(xml.Groups[g])]]

\* the inner loop of parseSlides over zipReader.File from the j-th entry on, for
\* the slide of index i: the slides to append, none or one
RECURSIVE parseSlideFrom(_, _, _)
parseSlideFrom(files, j, i) ==
    IF j > Len(files) THEN <<>>
    ELSE IF files[j].Name # "ppt/slides/slide" \o Itoa(i) \o ".xml"
    THEN parseSlideFrom(files, j + 1, i)
    ELSE IF ~files[j].Open \/ files[j].Read # "ok" \/ ~files[j].Wellformed
    THEN parseSlideFrom(files, j + 1, i)
    ELSE <<parseSlideNotes(files, "ppt/notesSlides/notesSlide" \o Itoa(i) \o ".xml",
                           UnmarshalSlide(files[j].Value))>>

\* the loop of parseSlides over presentation.SlideIDs from index i on
RECURSIVE parseSlidesFrom(_, _, _)
parseSlidesFrom(files, presentation, i) ==
    IF i > Len(presentation.SlideIDs) THEN <<>>
    ELSE parseSlideFrom(files, 1, i) \o parseSlidesFrom(files, presentation, i + 1)

\* parseSlides(zipReader, presentation)
parseSlides(files, presentation) == parseSlidesFrom(files, presentation, 1)

\* parsePresentationXML(zipReader): <<presentation, error>>
parsePresentationXML(files) ==
    LET k == FirstIndex(files, LAMBDA f : f.Name = "ppt/presentation.xml")
    IN  IF k = 0 THEN <<[SlideIDs |-> <<>>], NewError("presentation.xml not found")>>
        ELSE IF ~files[k].Open
        THEN <<[SlideIDs |-> <<>>], NewError("zip: unsupported compression algorithm")>>
        ELSE IF files[k].Read = "truncated"
        THEN <<[SlideIDs |-> <<>>], NewError("unexpected EOF")>>
        ELSE IF files[k].Read = "checksum"
        THEN <<[SlideIDs |-> <<>>], NewError("zip: checksum error")>>
        ELSE IF ~files[k].Wellformed
        THEN <<[SlideIDs |-> <<>>], NewError("XML syntax error")>>
        ELSE <<files[k].Value, NilErr>>

\* what convertToMarkdown returns: the result (nil when there is an error) and
\* the error
PptxResult(markdown, err) == [Markdown |-> markdown, err |-> err]

\* convertToMarkdown(data, options) on the deck d
convertToMarkdown(d) ==
    IF ~d.Opens
    THEN PptxResult("", Wrap("failed to open PPTX file",
                             NewError("zip: not a valid zip file")))
    ELSE LET presentation == parsePresentationXML(d.File)
         IN  IF presentation[2] # NilErr
             THEN PptxResult("", Wrap("failed to parse presentation", presentation[2]))
             ELSE PptxResult(
                     TrimSpace(convertSlidesToMarkdown(parseSlides(d.File, presentation[1]),
                                                       d.File)),
                     NilErr)

(***************************************************************************)
(* PPTX files: the parts of a deck and the content of its slides.          *)
(***************************************************************************)

\* <p:sp> with a text body of one paragraph of one run; <p:sp> without txBody
TextShape(text) == [TextBody |-> TextBody(<< <<text>> >>)]
ShapeWithoutText == [TextBody |-> NilTextBody]

\* <p:pic>: cNvPr's name and descr, the blip's r:embed
Pic(name, descr, embed) == [Name |-> name, Descr |-> descr, Embed |-> embed]

\* <a:tc> with one paragraph of one run
Cell(text) == TextBody(<< <<text>> >>)

\* <p:grpSp> as it stands in a slide part: the shapes, the pictures, the tables
\* and the groups it holds
GrpSp(shapes, pics, tables, groups) ==
    [Shapes |-> shapes, Pics |-> pics, Tables |-> tables, Groups |-> groups]

\* the content of a slide part: the elements of its <p:spTree>
Slide(shapes, pics, tables, groups) ==
    [Shapes |-> shapes, Pics |-> pics, Tables |-> tables, Groups |-> groups,
     Notes |-> NilNotes]

\* the slide of index i: the first has shapes, a picture, a table and a group,
\* the third has no top-level text, the others a title and a body
SlidePart(i) ==
    CASE i = 1 ->
            Slide(<<ShapeWithoutText, TextShape("T1"), TextShape("b1")>>,
                  <<Pic("Picture 1", "a [logo]\nhere", "rId2")>>,
                  << << <<Cell("A"), Cell("<B>")>>, <<Cell("1"), Cell("2")>> >> >>,
                  <<GrpSp(<<TextShape("g1")>>, <<>>, <<>>, <<>>)>>)
      [] i = 3 ->
            Slide(<<TextShape("")>>, <<>>, <<>>,
                  <<GrpSp(<<TextShape("g3")>>, <<Pic("Pic 3", "", "")>>, <<>>, <<>>)>>)
      [] OTHER ->
            Slide(<<TextShape("T" \o Itoa(i)), TextShape("b" \o Itoa(i))>>,
                  <<>>, <<>>, <<>>)

\* the texts of the <a:t> elements of the notes part of index i
NotesPart(i) == [Texts |-> <<"N" \o Itoa(i), "more">>]

\* what xml.Unmarshal builds from ppt/presentation.xml with n slide ids
PresentationPart(n) ==
    [SlideIDs |-> [i \in 1..n |-> [ID |-> Itoa(255 + i), RID |-> "rId" \o Itoa(i)]]]

MaxSlides == 2

\* what can be wrong with the presentation part, a slide part, a notes part
PresentationFaults == {"none", "absent", "open", "truncated", "checksum", "malformed"}
SlideFaults == {"none", "absent", "open", "truncated", "malformed"}
NotesFaults == {"none", "absent", "open", "checksum"}

\* the entry, if any, of a part under a fault
FaultedFile(name, value, fault) ==
    CASE fault = "none" -> <<ZipFile(name, TRUE, "ok", TRUE, value)>>
      [] fault = "absent" -> <<>>
      [] fault = "open" -> <<ZipFile(name, FALSE, "ok", TRUE, value)>>
      [] fault = "truncated" -> <<ZipFile(name, TRUE, "truncated", TRUE, value)>>
      [] fault = "checksum" -> <<ZipFile(name, TRUE, "checksum", TRUE, value)>>
      [] fault = "malformed" -> <<ZipFile(name, TRUE, "ok", FALSE, value)>>

\* the entries of a sequence of parts, one after the other
RECURSIVE FilesFrom(_, _)
FilesFrom(parts, i) == IF i > Len(parts) THEN <<>> ELSE parts[i] \o FilesFrom(parts, i + 1)

\* a PPTX file of n slides; the faults are kept beside the entries to tell
\* the files apart
Deck(opens, pres, slideFaults, notesFaults, media) ==
    [Opens |-> opens, Pres |-> pres, Slides |-> slideFaults, Notes |-> notesFaults,
     Media |-> media, Kind |-> "parts",
     File |-> FaultedFile("ppt/media/image1.png", [Bytes |-> <<137, 80, 78, 71>>], media)
                 \o FilesFrom([i \in 1..Len(slideFaults) |->
                                  FaultedFile("ppt/notesSlides/notesSlide" \o Itoa(i) \o ".xml",
                                              NotesPart(i), notesFaults[i])], 1)
                 \o FaultedFile("ppt/presentation.xml",
                                PresentationPart(Len(slideFaults)), pres)
                 \o FilesFrom([i \in 1..Len(slideFaults) |->
                                  FaultedFile("ppt/slides/slide" \o Itoa(i) \o ".xml",
                                              SlidePart(i), slideFaults[i])], 1)]

\* the shapes of a slide: without a text body, with an empty one, with text
TopShapes == {ShapeWithoutText, TextShape(""), TextShape(" A"), TextShape("B")}

\* the groups of a slide: none, a group of one shape, a group of two shapes
\* holding a group of its own, a group holding nothing but a group
NestedGroup ==
    GrpSp(<<TextShape("n")>>, <<Pic("Pic n", "", "")>>, << << <<Cell("c")>> >> >>, <<>>)
SlideGroups ==
    {<<>>,
     <<GrpSp(<<TextShape("g")>>, <<>>, <<>>, <<>>)>>,
     <<GrpSp(<<TextShape("g"), TextShape("h")>>, <<>>, <<>>, <<NestedGroup>>)>>,
     <<GrpSp(<<>>, <<>>, <<>>, <<NestedGroup>>)>>}

\* a sound PPTX file of one slide with the given shapes and groups, without
\* notes and media
ShapeDeck(shapes, groups) ==
    [Opens |-> TRUE, Pres |-> "none", Slides |-> <<"none">>, Notes |-> <<"absent">>,
     Media |-> "absent", Kind |-> "shapes",
     File |-> <<ZipFile("ppt/presentation.xml", TRUE, "ok", TRUE, PresentationPart(1)),
                ZipFile("ppt/slides/slide1.xml", TRUE, "ok", TRUE,
                        Slide(shapes, <<>>, <<>>, groups))>>]

\* the slides of up to two shapes and the groups above on which some shape, at
\* the top or in a group at the top, has text
ShapeDecks ==
    {ShapeDeck(sh, gr) :
        sh \in UNION {[1..n -> TopShapes] : n \in 0..2},
        gr \in SlideGroups}
      \ {ShapeDeck(sh, gr) :
            sh \in UNION {[1..n -> {ShapeWithoutText, TextShape("")}] : n \in 0..2},
            gr \in {<<>>, <<GrpSp(<<>>, <<>>, <<>>, <<NestedGroup>>)>>}}

\* the PPTX files conversions are run on: every fault of every slide and notes
\* part; sound decks with an image that is there, or that does not open; a
\* fault of the presentation part; a file that is no archive; slides of
\* several shapes and groups
Decks ==
    UNION {{Deck(TRUE, "none", sf, nf, "absent") :
               sf \in [1..n -> SlideFaults], nf \in [1..n -> NotesFaults]} :
           n \in 0..MaxSlides}
       \cup {Deck(TRUE, "none", [i \in 1..n |-> "none"], [i \in 1..n |-> "none"], m) :
                n \in 1..MaxSlides, m \in {"none", "open"}}
       \cup {Deck(TRUE, pres, <<"none">>, <<"none">>, "absent") :
                pres \in PresentationFaults}
       \cup {Deck(FALSE, "none", <<"none">>, <<"none">>, "absent")}
       \cup ShapeDecks

InitPptx ==
    /\ deck \in Decks
    /\ deckRuns = <<>>
    /\ DocxIdle
    /\ ConcIdle
    /\ Converters = <<>>
    /\ last = NoCall
    /\ rows = <<>>
    /\ tableOut = ""
    /\ tpc = "idle"
    /\ detections = <<>>

\* one call of convertToMarkdown on the file, after the ones made so far
ConvertPptx ==
    /\ Len(deckRuns) < MaxRuns
    /\ deckRuns' = Append(deckRuns, convertToMarkdown(deck))
    /\ UNCHANGED <<deck, docxVars, concVars, dispatchVars, tableVars, mimeVars>>

NextPptx == ConvertPptx

SpecPptx == InitPptx /\ [][NextPptx]_vars

(***************************************************************************)
(* Dispatcher properties                                                   *)
(***************************************************************************)

Range(seq) == {seq[i] : i \in 1..Len(seq)}

\* the last call was a Convert whose MIME detection succeeded
ConvertedDetected == last.op = "convert" /\ FileSystem[last.path].exists

\* what detection found for the file of the last call
DetectedType == FileSystem[last.path].mtype

\* the detected type without its parameters, read off the file table
DetectedBareType ==
    CASE DetectedType = MimeTextPlain -> "text/plain"
      [] DetectedType = MimeTextCsv -> "text/csv"
      [] DetectedType = MimePdf -> "application/pdf"
      [] OTHER -> "application/octet-stream"

\* the i-th registered converter matches the detected type: by one of its MIME
\* types (parameters and case aside, aliases included) or by the extension that
\* belongs to the detected type
MatchesDetected(i) ==
    \/ DetectedType.extension \in Range(Converters[i].acceptedExtensions)
    \/ \E t \in Range(Converters[i].acceptedMimeTypes) :
          \/ ParseMediaType(t) = DetectedBareType
          \/ ParseMediaType(t) \in DetectedType.aliases

\* the i-th registered converter lists the extension of the file's own name
ListsOwnExtension(i) ==
    Ext(last.path) \in Range(Converters[i].acceptedExtensions)

FirstMatch ==
    CHOOSE i \in 1..Len(Converters) :
        MatchesDetected(i) /\ \A j \in 1..(i - 1) : ~MatchesDetected(j)

SomeMatch == \E i \in 1..Len(Converters) : MatchesDetected(i)

\* C1: when detection succeeds and some converter accepts, the predicates are
\* evaluated in registration order up to the first accepting converter, Load is
\* called exactly once, on that converter, and Convert returns exactly that call's
\* pair: a failing Load's error is returned and no later converter is tried.
C1_FirstMatchWins ==
    (ConvertedDetected /\ SomeMatch) =>
        /\ last.tested = [k \in 1..FirstMatch |-> k]
        /\ last.loads = <<FirstMatch>>
        /\ <<last.out, last.err>> = Load(Converters[FirstMatch], last.path)

\* C1 witness: the first matching converter's Load failed, a later converter
\* matches too, and the failure is what Convert returned.
C1_Witness ==
    /\ ConvertedDetected
    /\ Len(Converters) >= 2
    /\ MatchesDetected(1) /\ Converters[1].loadErr # NoMsg
    /\ MatchesDetected(2) /\ Converters[2].loadErr = NoMsg
    /\ last.loads = <<1>>
    /\ last.err = NewError("loader failed")

\* C2 as stated: a converter that lists the extension of the file's own name (or
\* matches the detected type) is selected, so with such a converter registered
\* some Load is called.
C2_OwnExtensionSelects ==
    (ConvertedDetected
        /\ \E i \in 1..Len(Converters) : ListsOwnExtension(i) \/ MatchesDetected(i))
    => last.loads # <<>>

\* C2 amended: a converter is selected exactly when one matches the detected
\* type -- by MIME type or by the extension belonging to the detected type; the
\* extension of the file's own name selects nothing.
C2_DetectedTypeSelects ==
    ConvertedDetected =>
        /\ (last.loads # <<>>) <=> SomeMatch
        /\ \A i \in Range(last.loads) : MatchesDetected(i)
        /\ \A i \in Range(last.tested) \ Range(last.loads) : ~MatchesDetected(i)

\* C2 witness: x.foo converted with only the .foo converter registered: its
\* predicate was evaluated and it was not selected.
C2_Witness ==
    /\ ConvertedDetected
    /\ last.path = "x.foo"
    /\ Len(Converters) = 1 /\ Converters[1].name = "foo"
    /\ ListsOwnExtension(1)
    /\ last.tested = <<1>> /\ last.loads = <<>>

C4_EmptyAlwaysNoConverter ==
    (last.op = "convert" /\ Converters = <<>>) =>
        HasPrefix(last.err.msg, "no converter found")

\* C4 amended: with no converter registered every Convert call fails: with the
\* "no converter found" message when detection succeeds, whatever the file holds,
\* and with the detection error when the file cannot be read.
C4_EmptyAlwaysFails ==
    (last.op = "convert" /\ Converters = <<>>) =>
        /\ last.out = "" /\ last.err # NilErr /\ last.loads = <<>>
        /\ FileSystem[last.path].exists =>
              last.err.msg = "no converter found for MIME type: " \o DetectedType.mime
        /\ ~FileSystem[last.path].exists =>
              HasPrefix(last.err.msg, "failed to detect MIME type: ")

\* C4 witness: an existing file converted with nothing registered.
C4_Witness ==
    /\ last.op = "convert" /\ Converters = <<>>
    /\ FileSystem[last.path].exists
    /\ HasPrefix(last.err.msg, "no converter found")

\* C5: when detection fails Convert returns "" and an error wrapping the detection
\* error under "failed to detect MIME type", evaluates no predicate and calls no
\* Load, whatever is registered.
C5_DetectionFailure ==
    (last.op = "convert" /\ ~FileSystem[last.path].exists) =>
        /\ last.out = ""
        /\ last.err.msg = "failed to detect MIME type: open " \o last.path
                            \o ": no such file or directory"
        /\ last.err.unwrap = "open " \o last.path \o ": no such file or directory"
        /\ last.tested = <<>>
        /\ last.loads = <<>>

\* C5 witness: a missing file converted with converters registered.
C5_Witness ==
    /\ last.op = "convert" /\ ~FileSystem[last.path].exists
    /\ Len(Converters) >= 1
    /\ last.err.unwrap # NoMsg

\* C6: a RegisterConverter call lengthens the registry by one, puts the new
\* converter last and keeps the earlier entries in place; a Convert call, failing or
\* not, leaves the registry as it was.
C6_RegistryAppendOnly ==
    [][ /\ last'.op = "register" =>
             /\ Len(Converters') = Len(Converters) + 1
             /\ SubSeq(Converters', 1, Len(Converters)) = Converters
             /\ Converters'[Len(Converters')].name = last'.converter
        /\ last'.op = "convert" => Converters' = Converters
        /\ Converters' # Converters => last'.op = "register" ]_vars

\* C6 witness: two different converters registered in turn, then a failing Convert.
C6_Witness ==
    /\ Len(Converters) = 2
    /\ Converters[1].name = "foo" /\ Converters[2].name = "first"
    /\ last.op = "convert" /\ last.err # NilErr

(***************************************************************************)
(* Table renderer properties                                               *)
(***************************************************************************)

RECURSIVE CountCharFrom(_, _, _)
CountCharFrom(s, c, i) ==
    IF i > Len(s) THEN 0
    ELSE (IF CharAt(s, i) = c THEN 1 ELSE 0) + CountCharFrom(s, c, i + 1)

CountChar(s, c) == CountCharFrom(s, c, 1)

\* the pipes of s that follow a backslash
RECURSIVE CountEscapedPipes(_, _)
CountEscapedPipes(s, i) ==
    IF i > Len(s) THEN 0
    ELSE (IF CharAt(s, i) = "|" /\ i > 1 /\ CharAt(s, i - 1) = "\\" THEN 1 ELSE 0)
            + CountEscapedPipes(s, i + 1)

\* s cut at every pipe that follows no backslash: what stands before the first such
\* pipe, between each two of them, and after the last
RECURSIVE TokensFrom(_, _, _)
TokensFrom(s, start, i) ==
    IF i > Len(s) THEN <<SubSeq(s, start, Len(s))>>
    ELSE IF CharAt(s, i) = "|" /\ (i = 1 \/ CharAt(s, i - 1) # "\\")
         THEN <<SubSeq(s, start, i - 1)>> \o TokensFrom(s, i + 1, i + 1)
         ELSE TokensFrom(s, start, i + 1)

Tokens(s) == TokensFrom(s, 1, 1)

\* the sum of f(k, j) over the cells rs[k][j], from cell j of row k on
RECURSIVE SumCells(_, _, _, _)
SumCells(f(_, _), rs, k, j) ==
    IF k > Len(rs) THEN 0
    ELSE IF j > Len(rs[k]) THEN SumCells(f, rs, k + 1, 1)
    ELSE f(k, j) + SumCells(f, rs, k, j + 1)

SumOver(f(_, _), rs, k) == SumCells(f, rs, k, 1)

\* what each input cell must look like between its pipes: trimmed, pipes escaped
ExpectedCell ==
    [c \in Cells |-> CASE c = "x|y|" -> "x\\|y\\|"
                       [] c = " c\nd\n" -> "c\nd"]

\* the newlines that remain inside each input cell once it is trimmed
EmbeddedNewlines ==
    [c \in Cells |-> CASE c = "x|y|" -> 0
                       [] c = " c\nd\n" -> 1]

Rendered == tpc = "done" /\ Len(rows) >= 1 /\ Len(rows[1]) >= 1

Rectangular == \A k \in 1..Len(rows) : Len(rows[k]) = Len(rows[1])

\* the pipes in each input cell
PipesOf ==
    [c \in Cells |-> CASE c = "x|y|" -> 2
                       [] c = " c\nd\n" -> 0]

PipesIn(k, j) == PipesOf[rows[k][j]]
NewlinesIn(k, j) == EmbeddedNewlines[rows[k][j]]

\* C7 as stated: a rectangular row set with a non-empty header renders to exactly
\* rows+1 newline-terminated lines, and every pipe of a cell comes out escaped.
C7_RowsPlusOneLines ==
    (Rendered /\ Rectangular) =>
        /\ CharAt(tableOut, Len(tableOut)) = "\n"
        /\ CountChar(tableOut, "\n") = Len(rows) + 1
        /\ CountEscapedPipes(tableOut, 1) = SumOver(PipesIn, rows, 1)

\* C7 amended: a rectangular row set with a non-empty header renders to rows+1
\* newline-terminated table lines plus one more line for every newline embedded
\* in a trimmed cell; every pipe of a cell comes out as a backslash and the pipe,
\* and the only other pipes are the columns+1 delimiters of each table line.
C7_LinesAndEscapedPipes ==
    (Rendered /\ Rectangular) =>
        LET escaped == CountEscapedPipes(tableOut, 1)
        IN  /\ CharAt(tableOut, Len(tableOut)) = "\n"
            /\ CountChar(tableOut, "\n")
                  = Len(rows) + 1 + SumOver(NewlinesIn, rows, 1)
            /\ escaped = SumOver(PipesIn, rows, 1)
            /\ CountChar(tableOut, "|") - escaped
                  = (Len(rows) + 1) * (Len(rows[1]) + 1)

\* C7 witness: a rendered 3 x 2 table with pipes in one cell and an embedded
\* newline in another.
C7_Witness ==
    /\ Rendered /\ Rectangular
    /\ Len(rows) = 3 /\ Len(rows[1]) = 2
    /\ rows[2] = <<"x|y|", " c\nd\n">>
    /\ CountEscapedPipes(tableOut, 1) >= 2

\* the index, among the tokens of the output, of column j of the table line
\* `line` (1 the header, 2 the separator, 3 the first data row)
CellIndex(line, j) == (line - 1) * (Len(rows[1]) + 1) + 1 + j

\* the index of the token that follows the closing pipe of the table line `line`
LineEndIndex(line) == line * (Len(rows[1]) + 1) + 1

\* every table line has exactly as many cells as the header and ends in a newline,
\* and the cells a data row has, up to the header's width, render trimmed and
\* escaped between two blanks
RowsFollowHeader(toks) ==
    /\ Len(toks) = (Len(rows) + 1) * (Len(rows[1]) + 1) + 1
    /\ \A line \in 1..(Len(rows) + 1) : toks[LineEndIndex(line)] = "\n"
    /\ \A k \in 2..Len(rows) :
          \A j \in 1..Len(rows[1]) :
             j <= Len(rows[k]) =>
                toks[CellIndex(k + 1, j)] = " " \o ExpectedCell[rows[k][j]] \o " "

\* C8 as stated: every data row renders as many cells as the header, a missing
\* cell as a single blank between its pipes, and cells beyond the header's width
\* are dropped.
C8_MissingCellSingleBlank ==
    Rendered =>
        \A toks \in {Tokens(tableOut)} :
            /\ RowsFollowHeader(toks)
            /\ \A k \in 2..Len(rows) :
                  \A j \in 1..Len(rows[1]) :
                     j > Len(rows[k]) => toks[CellIndex(k + 1, j)] = " "

\* C8 amended: every data row renders as many cells as the header; a missing cell
\* renders as an empty cell, the two padding blanks with nothing between them, and
\* cells beyond the header's width are dropped.
C8_RaggedRowsPadded ==
    Rendered =>
        \A toks \in {Tokens(tableOut)} :
            /\ RowsFollowHeader(toks)
            /\ \A k \in 2..Len(rows) :
                  \A j \in 1..Len(rows[1]) :
                     j > Len(rows[k]) => toks[CellIndex(k + 1, j)] = "  "

\* C8 witness: a rendered table of two columns with one data row short of a cell
\* and one with a cell too many.
C8_Witness ==
    /\ Rendered
    /\ Len(rows) = 3 /\ Len(rows[1]) = 2
    /\ Len(rows[2]) = 1 /\ Len(rows[3]) = 3
    /\ Tokens(tableOut)[CellIndex(3, 2)] = "  "

(***************************************************************************)
(* MIME sniffer properties                                                 *)
(***************************************************************************)

\* the lower-cased extension of each path, written out
ExpectedExtension ==
    [p \in MimePaths |->
        CASE p = "a.docx" -> ".docx"
          [] p = "dir/A.DOCX" -> ".docx"
          [] p = "a.xlsx" -> ".xlsx"
          [] p = "a.pptx" -> ".pptx"
          [] p = "a.Epub" -> ".epub"
          [] p = "a.zip" -> ".zip"
          [] p = "a.doc" -> ".doc"
          [] p = "a.csv" -> ".csv"
          [] p = "a.HTM" -> ".htm"
          [] p = "a.xls" -> ".xls"
          [] p = "a.ppt" -> ".ppt"
          [] p = "a.html" -> ".html"
          [] p = "a.xml" -> ".xml"
          [] p = "a.ipynb" -> ".ipynb"
          [] p = "dir.d/a" -> ""]

\* the path without its extension
Stem(p) == SubSeq(p, 1, Len(p) - Len(ExpectedExtension[p]))

Detected(d) == d.called /\ d.err = NilErr

StartsWithZip(d) == Len(d.data) >= 4 /\ SubSeq(d.data, 1, 4) = <<80, 75, 3, 4>>

\* C9: for a sample that starts with PK\x03\x04, DetectMimeType returns the DOCX,
\* XLSX, PPTX or EPUB type exactly when the path's extension (case aside, as the
\* sniffer lower-cases it) is .docx, .xlsx, .pptx or .epub; with any other extension
\* the result is the baseline type, application/zip.
C9_ZipOverride ==
    \A d \in {detections.prev, detections.cur} :
        (Detected(d) /\ StartsWithZip(d)) =>
            LET e == ExpectedExtension[d.path]
            IN  /\ (d.info.MimeType = mimeDocx) <=> (e = ".docx")
                /\ (d.info.MimeType = mimeXlsx) <=> (e = ".xlsx")
                /\ (d.info.MimeType = mimePptx) <=> (e = ".pptx")
                /\ (d.info.MimeType = mimeEpub) <=> (e = ".epub")
                /\ e \notin {".docx", ".xlsx", ".pptx", ".epub"} =>
                      d.info.MimeType = "application/zip"

\* C9 witness: the same ZIP bytes detected as EPUB under an .epub name and left as
\* application/zip under a .zip name.
C9_Witness ==
    /\ Detected(detections.prev) /\ StartsWithZip(detections.prev)
    /\ detections.prev.path = "a.Epub"
    /\ detections.prev.info.MimeType = mimeEpub
    /\ Detected(detections.cur) /\ detections.cur.data = detections.prev.data
    /\ detections.cur.path = "a.zip"
    /\ detections.cur.info.MimeType = "application/zip"

\* C10: the Extension field is the lower-cased extension of the path whatever the
\* bytes are; two calls on the same path and bytes give the same result, and two
\* files with the same bytes whose paths differ only in extension each get their own
\* path's lower-cased extension, whatever their MIME types are.
C10_ExtensionMirrorsPath ==
    /\ \A d \in {detections.prev, detections.cur} :
          Detected(d) => d.info.Extension = ExpectedExtension[d.path]
    /\ (Detected(detections.prev) /\ Detected(detections.cur)
          /\ detections.prev.data = detections.cur.data) =>
          /\ detections.prev.path = detections.cur.path =>
                detections.prev.info = detections.cur.info
          /\ Stem(detections.prev.path) = Stem(detections.cur.path) =>
                /\ detections.prev.info.Extension
                      = ExpectedExtension[detections.prev.path]
                /\ detections.cur.info.Extension
                      = ExpectedExtension[detections.cur.path]

\* C10 witness: the same bytes under a.docx and a.xlsx: different MIME types, each
\* Extension that of its own path; and an upper-case extension lower-cased.
C10_Witness ==
    /\ Detected(detections.prev) /\ Detected(detections.cur)
    /\ detections.prev.data = detections.cur.data
    /\ detections.prev.path = "a.xlsx" /\ detections.cur.path = "a.HTM"
    /\ Stem(detections.prev.path) = Stem(detections.cur.path)
    /\ detections.prev.info.MimeType # detections.cur.info.MimeType
    /\ detections.prev.info.Extension = ".xlsx"
    /\ detections.cur.info.Extension = ".htm"

\* the first sampleLimit bytes of a file
First512(data) == SubSeq(data, 1, Min(Len(data), 512))

\* the two-file half of C11: two readable files with the same (lower-cased)
\* extension and the same first 512 bytes get equal MimeTypeInfo values
SameSampleSameInfo ==
    (/\ detections.prev.readable /\ detections.cur.readable
     /\ ExpectedExtension[detections.prev.path]
           = ExpectedExtension[detections.cur.path]
     /\ First512(detections.prev.data) = First512(detections.cur.data)) =>
       /\ detections.prev.err = NilErr /\ detections.cur.err = NilErr
       /\ detections.prev.info = detections.cur.info

\* C11 as stated: the result of DetectMimeType depends on the path's extension and
\* the first 512 bytes only, and a readable zero-length file yields no error and
\* the generic baseline type (that of an empty sample, text/plain).
C11_EmptyFileBaseline ==
    /\ SameSampleSameInfo
    /\ \A d \in {detections.prev, detections.cur} :
          (d.readable /\ d.data = <<>>) =>
             /\ d.err = NilErr
             /\ d.info.MimeType = "text/plain; charset=utf-8"

\* C11 amended: the result of DetectMimeType depends on the path's extension and
\* the first 512 bytes only: two readable files with the same (lower-cased)
\* extension and the same first 512 bytes get equal MimeTypeInfo values, whatever
\* follows those bytes and whatever the rest of the path is; and a readable
\* zero-length file yields no error and a result: the text type of its extension
\* for .csv and .htm (.html, .xml and .ipynb alike), else the baseline text/plain.
C11_SampleAndExtensionOnly ==
    /\ SameSampleSameInfo
    /\ \A d \in {detections.prev, detections.cur} :
          (d.readable /\ d.data = <<>>) =>
             /\ d.err = NilErr
             /\ d.info.Extension = ExpectedExtension[d.path]
             /\ d.info.MimeType =
                   CASE ExpectedExtension[d.path] = ".csv" -> "text/csv"
                     [] ExpectedExtension[d.path] = ".htm" -> "text/html"
                     [] OTHER -> "text/plain; charset=utf-8"

\* C11 witness: two files longer than 512 bytes that differ only past byte 512 (a
\* NUL against a letter), both named a.csv, detected alike as text/csv.
C11_Witness ==
    /\ detections.prev.readable /\ detections.cur.readable
    /\ detections.prev.path = "a.csv" /\ detections.cur.path = "a.csv"
    /\ Len(detections.prev.data) > 512 /\ Len(detections.cur.data) > 512
    /\ detections.prev.data # detections.cur.data
    /\ detections.prev.data[513] = 0 /\ detections.cur.data[513] = 66
    /\ First512(detections.prev.data) = First512(detections.cur.data)
    /\ detections.prev.info = detections.cur.info
    /\ detections.cur.info.MimeType = mimeCsv

(***************************************************************************)
(* DOCX walker properties                                                  *)
(***************************************************************************)

\* the conversions made so far, by their place in runs
RunIndexes == 1..Len(runs)

\* nothing is wrong with the archive or its parts
Sound == archive.Fault = <<"none", "none">>

\* the body is a sequence of list items
IsListBody == Sound /\ archive.Body \in ListBodies

\* the <<numbering instance, level>> of the i-th list item of the body
ItemKind(i) ==
    CHOOSE k \in ListItemKinds : archive.Body[i] = ListParagraph(k[1], k[2], "x")

\* word/numbering.xml read by hand: the start value of each numbered (instance,
\* level), and the blanks written before an item of each (instance, level)
LevelStart(k) ==
    CASE k = <<"1", "0">> -> 1
      [] k = <<"1", "1">> -> 3
      [] k = <<"2", "0">> -> 1
      [] k = <<"2", "1">> -> 5

LevelIndent(k) ==
    CASE k = <<"1", "0">> -> "    "
      [] k = <<"1", "1">> -> "        "
      [] k = <<"3", "0">> -> "    "
      [] OTHER -> ""

\* how many items before the i-th have its instance and its level
EarlierAtLevel(i) ==
    Cardinality({j \in 1..(i - 1) : ItemKind(j) = ItemKind(i)})

\* the line of the i-th item when counters are kept per (instance, level)
LineAtLevel(i) ==
    LevelIndent(ItemKind(i))
       \o (IF ItemKind(i) = <<"3", "0">> THEN "* "
           ELSE Itoa(LevelStart(ItemKind(i)) + EarlierAtLevel(i)) \o ". ")
       \o "x\n"

RECURSIVE LinesAtLevelFrom(_)
LinesAtLevelFrom(i) ==
    IF i > Len(archive.Body) THEN "" ELSE LineAtLevel(i) \o LinesAtLevelFrom(i + 1)

\* C12: the ordered-list counters are kept per (numbering instance, level): the
\* first decimal item at an (instance, level) shows the level's start value, each
\* later one at the same (instance, level) the previous ordinal plus one, and
\* items at another level of the instance leave that counter alone.
C12_CountersPerLevel ==
    \A r \in RunIndexes :
        IsListBody => (runs[r].err = NilErr /\ runs[r].out = LinesAtLevelFrom(1))

\* C13: counters do not leak between conversions: every conversion of a file
\* returns what the first one returned and leaves the counters the first one
\* left, and in each the first item of a list document shows its level's start
\* value.
C13_FreshCountersEachRun ==
    \A r \in RunIndexes :
        /\ runs[r].out = runs[1].out
        /\ runs[r].err = runs[1].err
        /\ runs[r].list = runs[1].list
        /\ IsListBody =>
              (runs[r].err = NilErr /\ HasPrefix(runs[r].out, LineAtLevel(1)))

\* C13 witness: a document of two items at level 1 of instance 1 (start value 3)
\* converted twice, the second conversion numbering them 3 and 4 again.
C13_Witness ==
    /\ IsListBody
    /\ Len(archive.Body) = 2
    /\ ItemKind(1) = <<"1", "1">> /\ ItemKind(2) = <<"1", "1">>
    /\ Len(runs) = 2
    /\ runs[1].out = "        3. x\n        4. x\n"
    /\ runs[2].out = "        3. x\n        4. x\n"
    /\ zfList = runs[2].list

\* s cut at every line feed: what stands before the first, between each two, and
\* after the last
RECURSIVE LinesFrom(_, _, _)
LinesFrom(s, start, i) ==
    IF i > Len(s) THEN <<SubSeq(s, start, Len(s))>>
    ELSE IF CharAt(s, i) = "\n"
         THEN <<SubSeq(s, start, i - 1)>> \o LinesFrom(s, i + 1, i + 1)
         ELSE LinesFrom(s, start, i + 1)

SplitLines(s) == LinesFrom(s, 1, 1)

\* the body is one table of text cells
IsTableBody == Sound /\ archive.Body \in TableBodies

\* the cell texts of the table, row by row, read off the document tree
\* (tbl, tr, tc, p, r, t)
TableTexts ==
    LET tbl == archive.Body[Len(archive.Body)]
    IN  [i \in 1..Len(tbl.Nodes) |->
            [j \in 1..Len(tbl.Nodes[i].Nodes) |->
                tbl.Nodes[i].Nodes[j].Nodes[1].Nodes[1].Nodes[1].Content]]

\* the widest row of the table
TableColumns ==
    CHOOSE m \in {Len(TableTexts[i]) : i \in 1..Len(TableTexts)} :
        \A i \in 1..Len(TableTexts) : Len(TableTexts[i]) <= m

\* a table line cut at every pipe that no backslash stands before
RECURSIVE CutAtPipes(_, _, _)
CutAtPipes(line, start, i) ==
    IF i > Len(line) THEN <<SubSeq(line, start, Len(line))>>
    ELSE IF CharAt(line, i) = "|" /\ (i = 1 \/ CharAt(line, i - 1) # "\\")
         THEN <<SubSeq(line, start, i - 1)>> \o CutAtPipes(line, i + 1, i + 1)
         ELSE CutAtPipes(line, start, i + 1)

\* the cells of a table line: what stands between its pipes, without the blanks
\* at the end and without the backslashes of escape
LineCells(line) ==
    LET toks == CutAtPipes(line, 1, 1)
    IN  [j \in 1..(Len(toks) - 2) |-> ReplaceAll(TrimRight(toks[j + 1]), "\\", "")]

\* the table line shows the cells of the row, and blank cells up to the width of
\* the table
HoldsRow(line, row) ==
    /\ Len(line) > 0 /\ CharAt(line, 1) = "|" /\ CharAt(line, Len(line)) = "|"
    /\ LineCells(line) =
          [j \in 1..TableColumns |-> IF j <= Len(row) THEN row[j] ELSE ""]

IsSeparatorLine(line) ==
    /\ Len(line) > 2
    /\ \A i \in 1..Len(line) : CharAt(line, i) \in {"|", "-"}
    /\ \E i \in 1..Len(line) : CharAt(line, i) = "-"

IsBlankLine(line) ==
    /\ Len(line) > 2
    /\ \A i \in 1..Len(line) : CharAt(line, i) \in {"|", " "}
    /\ \E i \in 1..Len(line) : CharAt(line, i) = " "

\* the body is a Heading1 paragraph, a bold run and the table [A,B], [1,2]
IsRoundTripBody ==
    /\ Sound /\ Len(archive.Body) = 3
    /\ archive.Body[3] = TextTable(<< <<"A", "B">>, <<"1", "2">> >>)

FailingImageIds == {"rId2", "rId3", "rId4", "rId5"}

\* some step of the conversion of the archive fails: opening the archive;
\* opening, reading or unmarshalling a part; finding the main part; extracting an
\* image while walking a paragraph or a table cell
StepFails ==
    \/ archive.Fault[1] = "archive"
    \/ /\ archive.Fault[1] \in {"rels", "numbering"}
       /\ archive.Fault[2] \in {"open", "truncated", "checksum", "malformed"}
    \/ archive.Fault[1] = "document"
    \/ /\ Sound
       /\ \E id \in FailingImageIds :
             \/ archive.Body = <<PlainParagraph("x"), Node("p", <<>>, "", <<Picture(id)>>)>>
             \/ archive.Body = <<PlainParagraph("x"), TableOf(<< <<Picture(id), Run("B")>> >>)>>

\* C17 as stated: when any step of a DOCX conversion fails (archive, relationships,
\* numbering, main part, or a node of the tree, table cells and images included)
\* the conversion returns a non-nil error with an empty string, and does not
\* panic; Markdown comes back only when every step succeeded.
C17_NoPartialSuccess ==
    \A r \in RunIndexes :
        StepFails => /\ ~runs[r].panic
                     /\ runs[r].err # NilErr
                     /\ runs[r].out = ""

\* C18 as stated: every ZIP entry a conversion opens is closed before anything
\* else is opened or consumed, on every exit path, and nothing the conversion
\* opened, entry or archive, is open when it returns.
C18_ClosedRightAfterUse ==
    \A r \in RunIndexes :
        \A log \in {runs[r].log} :
            \A i \in 1..Len(log) :
                log[i][1] = "open" =>
                    IF log[i][2] = "archive"
                    THEN log[Len(log)] = <<"close", "archive">>
                    ELSE \E j \in (i + 1)..Len(log) :
                            /\ log[j] = <<"close", log[i][2]>>
                            /\ \A k \in (i + 1)..(j - 1) : log[k][2] = log[i][2]

\* C19 as stated: a paragraph of style Code has the text of its runs between an
\* opening and a closing backtick, with no heading prefix.
C19_CodeWrapsRuns ==
    \A r \in RunIndexes :
        (Sound /\ archive.Body = <<StyledParagraph("Code", "x"), PlainParagraph("y")>>)
            => /\ runs[r].err = NilErr
               /\ runs[r].out = Backtick \o "x" \o Backtick \o "\ny\n"

\* the body is a styled paragraph x and a plain paragraph y
IsStyledBody == Sound /\ archive.Body \in StyledBodies

\* the style name of the first paragraph, read off the document tree (p, pPr,
\* pStyle, w:val)
BodyStyle == archive.Body[1].Nodes[1].Nodes[1].Attrs[1].Value

\* the heading prefix a style name asks for, name by name
ExpectedPrefix(style) ==
    CASE style \in {"Heading1", "1"} -> "# "
      [] style \in {"Heading2", "Heading02", "Heading+2", "+2"} -> "## "
      [] style = "3" -> "### "
      [] style = "Heading12" -> "############ "
      [] OTHER -> ""

\* C20: a paragraph of style Heading followed by a number N > 0, or of a style
\* that is a bare number N > 0, is written as N hash signs, a space and its text;
\* under every other style name (Heading alone, Heading with a suffix that is
\* zero, negative or no number, any other name) no hash sign is written.
C20_HeadingPrefix ==
    \A r \in RunIndexes :
        IsStyledBody =>
            /\ runs[r].err = NilErr
            /\ BodyStyle # "Code" =>
                  runs[r].out = ExpectedPrefix(BodyStyle) \o "x\ny\n"
            /\ BodyStyle = "Code" =>
                  \A i \in 1..Len(runs[r].out) : CharAt(runs[r].out, i) # "#"

\* C20 witness: the paragraphs of style Heading12 and of style 3 converted.
C20_Witness ==
    /\ IsStyledBody
    /\ Len(runs) >= 1
    /\ \/ BodyStyle = "Heading12" /\ runs[1].out = "############ x\ny\n"
       \/ BodyStyle = "3" /\ runs[1].out = "### x\ny\n"

(***************************************************************************)
(* Concurrent conversions: properties                                      *)
(***************************************************************************)

\* what a conversion comes to, without the log of its ZIP operations
Outcome(result) ==
    [out |-> result.out, err |-> result.err, panic |-> result.panic,
     list |-> result.list, disk |-> result.disk]

\* C14 as stated: in every interleaving of two conversions no location one of
\* them writes is written by the other, the files extracted to disk included: no
\* file of the working directory has two writers, every conversion returns what
\* it returns when run alone, and the files it extracted hold what it wrote when
\* it returns.
C14_NoSharedLocation ==
    /\ \A t \in DOMAIN cwd : Cardinality(cwd[t].by) <= 1
    /\ \A g \in DOMAIN gor :
          gor[g].pc = "done" =>
             /\ Outcome(gor[g].result) = Outcome(convertDocxToMarkdown(gor[g].file, <<>>))
             /\ \A t \in DOMAIN gor[g].result.disk :
                   cwd[t].bytes = gor[g].result.disk[t]

(***************************************************************************)
(* PPTX properties                                                         *)
(***************************************************************************)

\* sub stands somewhere in s
HasSubstring(s, sub) ==
    \E i \in 1..(Len(s) - Len(sub) + 1) : SubSeq(s, i, i + Len(sub) - 1) = sub

\* at how many places sub stands in s
CountOf(s, sub) ==
    Cardinality({i \in 1..(Len(s) - Len(sub) + 1) : SubSeq(s, i, i + Len(sub) - 1) = sub})

DeckRunIndexes == 1..Len(deckRuns)

\* the slide part of index i is there, opens, reads and unmarshals; its notes
\* part is there, opens and reads
SlideIsParsed(i) == deck.Slides[i] = "none"
NotesAreRead(i) == deck.Notes[i] = "none"

\* the slide part of a deck of ShapeDecks as it stands in the file
IsShapeDeck == deck.Kind = "shapes"
SlideXml == deck.File[2].Value

\* the texts of the shapes that have some, blanks at their ends apart, in the
\* order of the shapes
RECURSIVE ShapeTexts(_, _)
ShapeTexts(shapes, i) ==
    IF i > Len(shapes) THEN <<>>
    ELSE (IF ~shapes[i].TextBody.Nil /\ TrimSpace(shapes[i].TextBody.Paragraphs[1][1]) # ""
          THEN <<TrimSpace(shapes[i].TextBody.Paragraphs[1][1])>>
          ELSE <<>>)
            \o ShapeTexts(shapes, i + 1)

\* the texts of the shapes at the top of the slide, and of the shapes in the
\* groups at the top of the slide
TopTexts == ShapeTexts(SlideXml.Shapes, 1)
GroupTexts ==
    ConcatFrom([g \in 1..Len(SlideXml.Groups) |-> <<ShapeTexts(SlideXml.Groups[g].Shapes, 1)>>],
               1)

\* each text on a line of its own
Lines(texts) == ConcatFrom([i \in 1..Len(texts) |-> texts[i] \o "\n"], 1)

\* s without its last character
ButLast(s) == SubSeq(s, 1, Len(s) - 1)

\* a slide of ShapeDecks as the claims have it: the first text at the top as
\* the title, the other texts at the top and the texts of the groups as plain
\* lines
TitleThenLines ==
    ButLast((IF TopTexts # <<>> THEN "# " \o TopTexts[1] \o "\n" ELSE "")
               \o (IF TopTexts # <<>> THEN Lines(Tail(TopTexts)) ELSE "")
               \o Lines(ConcatFrom(GroupTexts, 1)))

\* what the slide of index i is rendered as after its marker, written out: the
\* title, the body, the picture (inlined when the deck has a readable image),
\* the table, the shape of the group
RenderedSlide(i) ==
    CASE IsShapeDeck -> TitleThenLines
      [] i = 1 /\ deck.Media = "none" ->
            "# T1\nb1\n\n![a logo here](data:image/png;base64,iVBORw==)\n"
               \o "| A | &lt;B&gt; |\n|---|---|\n| 1 | 2 |\ng1"
      [] i = 1 /\ deck.Media # "none" ->
            "# T1\nb1\n\n![a logo here](alogohere.jpg)\n"
               \o "| A | &lt;B&gt; |\n|---|---|\n| 1 | 2 |\ng1"
      [] i = 2 -> "# T2\nb2"
      [] i = 3 -> "g3\n\n![Pic 3](Pic3.jpg)"

\* the notes of the slide of index i as they are rendered
RenderedNotes(i) == "N" \o Itoa(i) \o " more"

\* C16: a PPTX conversion returns an error exactly when the archive does not
\* open or ppt/presentation.xml is missing, does not open, does not read or does
\* not unmarshal. Otherwise a slide whose part is missing, unreadable or
\* malformed is left out, every other slide is rendered with all its content
\* (there is one marker per such slide), and a notes part that is missing or
\* unreadable takes away the notes of its slide only.
C16_ToleratesPartFailures ==
    \A r \in DeckRunIndexes :
        LET md == deckRuns[r].Markdown
        IN  /\ (deckRuns[r].err # NilErr) <=> (~deck.Opens \/ deck.Pres # "none")
            /\ deckRuns[r].err # NilErr => md = ""
            /\ deckRuns[r].err = NilErr =>
                  /\ CountOf(md, "<!-- Slide number: ")
                        = Cardinality({i \in 1..Len(deck.Slides) : SlideIsParsed(i)})
                  /\ \A i \in 1..Len(deck.Slides) :
                        /\ (SlideIsParsed(i) /\ NotesAreRead(i)) =>
                              HasSubstring(md, RenderedSlide(i) \o "\n\n\n### Notes:\n"
                                                  \o RenderedNotes(i))
                        /\ (SlideIsParsed(i) /\ ~NotesAreRead(i)) =>
                              /\ HasSubstring(md, RenderedSlide(i))
                              /\ ~HasSubstring(md, RenderedNotes(i))
                              /\ ~HasSubstring(md, RenderedSlide(i) \o "\n\n\n### Notes:")
                        /\ ~SlideIsParsed(i) =>
                              /\ ~HasSubstring(md, "T" \o Itoa(i))
                              /\ ~HasSubstring(md, "g" \o Itoa(i))
                              /\ ~HasSubstring(md, RenderedNotes(i))

\* C16 witness: a deck whose first slide is malformed and whose second slide has
\* notes that do not read, converted: the second slide alone, without notes.
C16_Witness ==
    /\ deck.Opens /\ deck.Pres = "none"
    /\ deck.Slides = <<"malformed", "none">>
    /\ deck.Notes = <<"none", "checksum">>
    /\ Len(deckRuns) >= 1
    /\ deckRuns[1].err = NilErr
    /\ deckRuns[1].Markdown = "<!-- Slide number: 1 -->\n# T2\nb2"

(***************************************************************************)
(* DOCX runs, hyperlinks and the order of the walk: properties.            *)
(***************************************************************************)

IsRunBody == archive.Body \in RunBodies

\* the run of a body of RunBodies, the names of the children of its rPr, its text
BodyRun == archive.Body[1].Nodes[1]
BodyRunHas(name) ==
    \E j \in 1..Len(BodyRun.Nodes[1].Nodes) : BodyRun.Nodes[1].Nodes[j].XMLName = name
BodyRunText == BodyRun.Nodes[2].Content

\* reading s from i on as escaped text: a backslash makes the character after
\* it, which is one of chars, literal; a character of chars without a backslash
\* before it, or a backslash before anything else, is no escaped text.
\* <<whether s is escaped text, the text it stands for>>
RECURSIVE ReadEscaped(_, _, _)
ReadEscaped(s, chars, i) ==
    LET more(c, rest) == <<rest[1], c \o rest[2]>>
    IN  IF i > Len(s) THEN <<TRUE, "">>
        ELSE IF CharAt(s, i) = "\\"
        THEN IF i + 1 <= Len(s) /\ CharAt(s, i + 1) \in chars
             THEN more(CharAt(s, i + 1), ReadEscaped(s, chars, i + 2))
             ELSE <<FALSE, "">>
        ELSE IF CharAt(s, i) \in chars THEN <<FALSE, "">>
        ELSE more(CharAt(s, i), ReadEscaped(s, chars, i + 1))

\* s is text with every character of chars, and nothing else, behind a backslash
IsEscaped(s, chars, text) == ReadEscaped(s, chars, 1) = <<TRUE, text>>

\* s without its first m and its last n characters
Inner(s, m, n) == SubSeq(s, m + 1, Len(s) - n)

\* C21: a run is written as the opening markers (strike, then bold, then
\* italic), its text with every asterisk, tilde and backslash behind a
\* backslash, and the closing markers in the reverse order; a marker is there
\* exactly when the element of its flag is among the run's properties.
C21_RunMarkers ==
    \A r \in RunIndexes :
        (Sound /\ IsRunBody) =>
            LET open == (IF BodyRunHas("strike") THEN "~~" ELSE "")
                           \o (IF BodyRunHas("b") THEN "**" ELSE "")
                           \o (IF BodyRunHas("i") THEN "*" ELSE "")
                close == (IF BodyRunHas("i") THEN "*" ELSE "")
                            \o (IF BodyRunHas("b") THEN "**" ELSE "")
                            \o (IF BodyRunHas("strike") THEN "~~" ELSE "")
                out == runs[r].out
            IN  /\ runs[r].err = NilErr
                /\ Len(out) >= Len(open) + Len(close) + 1
                /\ SubSeq(out, 1, Len(open)) = open
                /\ SubSeq(out, Len(out) - Len(close), Len(out)) = close \o "\n"
                /\ IsEscaped(Inner(out, Len(open), Len(close) + 1),
                             {"*", "~", "\\"}, BodyRunText)

\* C21 witness: a run with bold, strike and italic set, in that order, whose
\* text is an asterisk, a tilde and a backslash, converted.
C21_Witness ==
    /\ Sound
    /\ archive.Body = <<Node("p", <<>>, "",
                             <<FlaggedRun(<<"b", "strike", "i">>, "*~\\")>>)>>
    /\ Len(runs) >= 1
    /\ runs[1].out = "~~***\\*\\~\\\\***~~\n"

IsLinkBody == archive.Body \in LinkBodies

\* the hyperlink of a body of LinkBodies
BodyLink == archive.Body[1].Nodes[1]

\* what the children of the hyperlink are rendered as: the text of a run,
\* between two pairs of asterisks when the run is bold
RECURSIVE RunsText(_, _)
RunsText(children, i) ==
    IF i > Len(children) THEN ""
    ELSE (IF Len(children[i].Nodes) = 2
          THEN "**" \o children[i].Nodes[2].Content \o "**"
          ELSE children[i].Nodes[1].Content)
            \o RunsText(children, i + 1)

\* the target of the relationship the hyperlink names, "" when it names none
LinkTarget ==
    IF \E i \in 1..Len(BodyLink.Attrs), k \in 1..Len(RelsPart) :
          BodyLink.Attrs[i].Local = "id" /\ BodyLink.Attrs[i].Value = RelsPart[k].ID
    THEN (CHOOSE rel \in {RelsPart[k] : k \in 1..Len(RelsPart)} :
             \E i \in 1..Len(BodyLink.Attrs) :
                BodyLink.Attrs[i].Local = "id" /\ BodyLink.Attrs[i].Value = rel.ID).Target
    ELSE ""

\* the first place from i on where sub stands in s outside an escape, 0 if none
RECURSIVE UnescapedIndex(_, _, _)
UnescapedIndex(s, sub, i) ==
    IF i + Len(sub) - 1 > Len(s) THEN 0
    ELSE IF CharAt(s, i) = "\\" THEN UnescapedIndex(s, sub, i + 2)
    ELSE IF SubSeq(s, i, i + Len(sub) - 1) = sub THEN i
    ELSE UnescapedIndex(s, sub, i + 1)

\* C22: a hyperlink is written as [text](url): text is what its children are
\* rendered as with every square bracket behind a backslash, url is the target
\* of the relationship whose ID is the hyperlink's id attribute with every
\* round bracket behind a backslash; without an id attribute, or with an id no
\* relationship has, the url is empty; no error is returned.
C22_HyperlinkRendering ==
    \A r \in RunIndexes :
        (Sound /\ IsLinkBody) =>
            LET out == runs[r].out
                k == UnescapedIndex(out, "](", 1)
            IN  /\ runs[r].err = NilErr
                /\ k >= 2
                /\ CharAt(out, 1) = "["
                /\ IsEscaped(SubSeq(out, 2, k - 1), {"[", "]"},
                             RunsText(BodyLink.Nodes, 1))
                /\ SubSeq(out, Len(out) - 1, Len(out)) = ")\n"
                /\ IsEscaped(SubSeq(out, k + 2, Len(out) - 2), {"(", ")"}, LinkTarget)
                /\ (LinkTarget = "") => SubSeq(out, k, Len(out)) = "]()\n"

\* C22 witness: a hyperlink to the relationship of http://x/(a) whose text is
\* [a], converted.
C22_Witness ==
    /\ Sound
    /\ archive.Body = <<Node("p", <<>>, "",
                             <<Node("hyperlink", <<XmlAttr("id", "rId7")>>, "",
                                    <<Run("[a]")>>)>>)>>
    /\ Len(runs) >= 1
    /\ runs[1].err = NilErr
    /\ runs[1].out = "[\\[a\\]](http://x/\\(a\\))\n"

IsOrderBody == archive.Body \in OrderBodies

\* the content of the t elements under node, each element before the ones that
\* follow it in the document, the elements under a Fallback left out
RECURSIVE TextsInOrder(_)
RECURSIVE TextsOfChildren(_, _)
TextsOfChildren(nodes, i) ==
    IF i > Len(nodes) THEN ""
    ELSE TextsInOrder(nodes[i]) \o TextsOfChildren(nodes, i + 1)

TextsInOrder(node) ==
    IF node.XMLName = "Fallback" THEN ""
    ELSE IF node.XMLName = "t" THEN node.Content
    ELSE TextsOfChildren(node.Nodes, 1)

\* C23: of a document of text, Fallback elements and elements walk has no rule
\* for, the output is the content of the t elements in document order, without
\* anything from under a Fallback and with nothing added by the other elements.
C23_DocumentOrder ==
    \A r \in RunIndexes :
        (Sound /\ IsOrderBody) =>
            /\ runs[r].err = NilErr
            /\ runs[r].out = TextsOfChildren(archive.Body, 1)
            /\ ~HasSubstring(runs[r].out, "F")
            /\ ~HasSubstring(runs[r].out, "G")

\* C23 witness: text, then an element holding a Fallback and text, then text,
\* converted: the three texts in that order.
C23_Witness ==
    /\ Sound
    /\ archive.Body =
          <<Node("Choice", <<>>, "",
                 <<Text("8"),
                   Node("AlternateContent", <<>>, "",
                        <<Node("Fallback", <<>>, "",
                               <<Text("F"), Node("pict", <<>>, "", <<Text("G")>>)>>),
                          Text("2")>>),
                   Text("1")>>)>>
    /\ Len(runs) >= 1
    /\ runs[1].out = "821"

(***************************************************************************)
(* DOCX images: properties.                                                *)
(***************************************************************************)

\* a body of ImageBodies whose picture stands in a paragraph, and the id it embeds
IsPictureBody ==
    /\ archive.Body \in ImageBodies
    /\ archive.Body[2].XMLName = "p"
PictureId == archive.Body[2].Nodes[1].Nodes[1].Nodes[1].Attrs[1].Value

\* the relationships with the id of the picture, and the entries of their targets
PictureRels == {k \in 1..Len(RelsPart) : RelsPart[k].ID = PictureId}
MediaPart(k) ==
    {j \in 1..Len(archive.File) : archive.File[j].Name = "word/" \o RelsPart[k].Target}

\* the media part j can be read to its end and the target of k can be written
Extractable(k, j) ==
    /\ archive.File[j].Open
    /\ archive.File[j].Read \in {"ok", "short"}
    /\ Dir(RelsPart[k].Target) \notin ReadOnlyDirs
    /\ RelsPart[k].Target \notin UnwritableFiles

\* C24: when the picture's id has a relationship whose media part is in the
\* archive (and can be read and written), the file written at the target holds
\* exactly the bytes of the media part, all of them, and the output has one
\* image link to the target.
C24_CompleteImageBytes ==
    \A r \in RunIndexes :
        (Sound /\ IsPictureBody) =>
            \A k \in PictureRels : \A j \in MediaPart(k) :
                Extractable(k, j) =>
                    /\ runs[r].err = NilErr
                    /\ RelsPart[k].Target \in DOMAIN runs[r].disk
                    /\ runs[r].disk[RelsPart[k].Target] = archive.File[j].Value
                    /\ CountOf(runs[r].out, "![](") = 1
                    /\ HasSubstring(runs[r].out, "![](" \o RelsPart[k].Target \o ")")

\* the same for the media parts one Read delivers whole
C24_CompleteWhenReadAtOnce ==
    \A r \in RunIndexes :
        (Sound /\ IsPictureBody) =>
            \A k \in PictureRels : \A j \in MediaPart(k) :
                (Extractable(k, j) /\ archive.File[j].Read = "ok") =>
                    /\ runs[r].err = NilErr
                    /\ RelsPart[k].Target \in DOMAIN runs[r].disk
                    /\ runs[r].disk[RelsPart[k].Target] = archive.File[j].Value
                    /\ CountOf(runs[r].out, "![](") = 1
                    /\ HasSubstring(runs[r].out, "![](" \o RelsPart[k].Target \o ")")

\* a picture of media/big.png converted: the file written has the size of the
\* part, its first half, and zeros after that
C24_ShortReadWritten ==
    /\ Sound /\ IsPictureBody /\ PictureId = "rId8"
    /\ Len(runs) >= 1
    /\ runs[1].err = NilErr
    /\ runs[1].disk["media/big.png"] = <<137, 80, 0, 0>>
    /\ runs[1].out = "x\n![](media/big.png)\n"

(***************************************************************************)
(* PPTX slide markers: properties.                                         *)
(***************************************************************************)

\* the marker of the slide number n
Marker(n) == "<!-- Slide number: " \o Itoa(n) \o " -->\n"

\* the places in s where sub stands
PlacesOf(s, sub) ==
    {i \in 1..(Len(s) - Len(sub) + 1) : SubSeq(s, i, i + Len(sub) - 1) = sub}

\* C25: the content of every slide that is rendered stands right after the
\* marker with the index of the part it was parsed from, ppt/slides/slide<N>.xml,
\* also when a slide part before it was left out.
C25_MarkerIsPartIndex ==
    \A r \in DeckRunIndexes :
        deckRuns[r].err = NilErr =>
            \A i \in 1..Len(deck.Slides) :
                SlideIsParsed(i) =>
                    HasSubstring(deckRuns[r].Markdown, Marker(i) \o RenderedSlide(i))

\* the same for the slides before which no slide part was left out
C25_MarkerIsPartIndexWhenNoneSkipped ==
    \A r \in DeckRunIndexes :
        deckRuns[r].err = NilErr =>
            \A i \in 1..Len(deck.Slides) :
                (\A j \in 1..i : SlideIsParsed(j)) =>
                    HasSubstring(deckRuns[r].Markdown, Marker(i) \o RenderedSlide(i))

\* a deck whose first slide part is absent, converted: the content of
\* ppt/slides/slide2.xml under the marker of slide number 1
C25_SecondSlideNumberedOne ==
    /\ deck.Opens /\ deck.Pres = "none"
    /\ deck.Slides = <<"absent", "none">>
    /\ Len(deckRuns) >= 1
    /\ deckRuns[1].err = NilErr
    /\ HasSubstring(deckRuns[1].Markdown, Marker(1) \o RenderedSlide(2))
    /\ ~HasSubstring(deckRuns[1].Markdown, Marker(2))

\* the slides parseSlides returns for the deck, when its presentation part reads
ParsedSlides == parseSlides(deck.File, PresentationPart(Len(deck.Slides)))

\* C30: parseSlides returns at most one slide for each slide id, in the order
\* of the ids; the output has one marker for each returned slide, numbered 1,
\* 2, ..., k in that order, k being at most the number of slide ids.
C30_ConsecutiveMarkers ==
    \A r \in DeckRunIndexes :
        deckRuns[r].err = NilErr =>
            LET md == deckRuns[r].Markdown
                k == Len(ParsedSlides)
                ids == Len(PresentationPart(Len(deck.Slides)).SlideIDs)
                parsed == {i \in 1..ids : SlideIsParsed(i)}
            IN  /\ k <= ids
                /\ k = Cardinality(parsed)
                /\ CountOf(md, "<!-- Slide number: ") = k
                /\ \A n \in 1..k : Cardinality(PlacesOf(md, Marker(n))) = 1
                /\ \A n \in 1..(k - 1) :
                      \A a \in PlacesOf(md, Marker(n)), b \in PlacesOf(md, Marker(n + 1)) :
                         a < b
                /\ \A i, j \in parsed :
                      i < j =>
                         \A a \in PlacesOf(md, RenderedSlide(i)),
                            b \in PlacesOf(md, RenderedSlide(j)) : a < b
                /\ \A i \in parsed : PlacesOf(md, RenderedSlide(i)) # {}

\* C30 witness: a deck of two slide ids whose first slide part does not open,
\* converted: one marker, numbered 1.
C30_Witness ==
    /\ deck.Opens /\ deck.Pres = "none"
    /\ deck.Slides = <<"open", "none">>
    /\ Len(deckRuns) >= 1
    /\ deckRuns[1].err = NilErr
    /\ CountOf(deckRuns[1].Markdown, "<!-- Slide number: ") = 1
    /\ HasSubstring(deckRuns[1].Markdown, Marker(1))

(***************************************************************************)
(* PPTX shapes and groups: properties.                                     *)
(***************************************************************************)

\* a group of the slide holds a group
HasNestedGroup == \E g \in 1..Len(SlideXml.Groups) : SlideXml.Groups[g].Groups # <<>>

\* C26: on a slide the first shape at the top that has text is written as the
\* title, behind "# "; every later shape at the top that has text, and every
\* shape of a group, is written as a plain line, also when no shape at the top
\* has text; so at most one line of the slide is a title.
C26_OneTitlePerSlide ==
    \A r \in DeckRunIndexes :
        IsShapeDeck =>
            LET md == deckRuns[r].Markdown
                expected == Marker(1) \o TitleThenLines
            IN  /\ deckRuns[r].err = NilErr
                /\ Len(md) >= Len(expected)
                /\ SubSeq(md, 1, Len(expected)) = expected
                /\ ~HasNestedGroup => md = expected
                /\ CountOf(md, "# ") = (IF TopTexts = <<>> THEN 0 ELSE 1)

\* C26 witness: a slide with the shapes B and A at the top and a group of the
\* shape g, converted: B is the title, A and g are plain lines.
C26_Witness ==
    /\ IsShapeDeck
    /\ SlideXml.Shapes = <<TextShape("B"), TextShape(" A")>>
    /\ SlideXml.Groups = <<GrpSp(<<TextShape("g")>>, <<>>, <<>>, <<>>)>>
    /\ Len(deckRuns) >= 1
    /\ deckRuns[1].Markdown = "<!-- Slide number: 1 -->\n# B\nA\ng"

\* a slide without text at the top and with a group of the shape g, converted:
\* g is a plain line
C26_NoTitleWitness ==
    /\ IsShapeDeck
    /\ SlideXml.Shapes = <<TextShape("")>>
    /\ Len(deckRuns) >= 1
    /\ deckRuns[1].Markdown = "<!-- Slide number: 1 -->\ng"

\* C27: the shapes, pictures and tables of a group are rendered at every depth:
\* what a group inside a group holds is in the output of the slide.
C27_NestedGroupsRendered ==
    \A r \in DeckRunIndexes :
        (IsShapeDeck /\ HasNestedGroup) =>
            /\ deckRuns[r].err = NilErr
            /\ HasSubstring(deckRuns[r].Markdown, "n\n")
            /\ HasSubstring(deckRuns[r].Markdown, "![Pic n](Picn.jpg)")
            /\ HasSubstring(deckRuns[r].Markdown, "| c |")

\* the shapes, pictures and tables of the groups at the top of the slide are
\* rendered
C27_TopGroupsRendered ==
    \A r \in DeckRunIndexes :
        IsShapeDeck =>
            \A g \in 1..Len(SlideXml.Groups) :
                \A t \in {ShapeTexts(SlideXml.Groups[g].Shapes, 1)[i] :
                             i \in 1..Len(ShapeTexts(SlideXml.Groups[g].Shapes, 1))} :
                    HasSubstring(deckRuns[r].Markdown, "\n" \o t)

\* a slide whose group holds the shapes g and h and a group with a shape n, a
\* picture and a table, converted: nothing of the inner group is in the output
C27_NestedGroupDropped ==
    /\ IsShapeDeck /\ HasNestedGroup
    /\ SlideXml.Shapes = <<TextShape("B")>>
    /\ Len(deckRuns) >= 1
    /\ deckRuns[1].Markdown = "<!-- Slide number: 1 -->\n# B\ng\nh"

(***************************************************************************)
(* The override step of the MIME sniffer: properties.                      *)
(***************************************************************************)

StartsWith(d, signature) ==
    Len(d.data) >= Len(signature) /\ SubSeq(d.data, 1, Len(signature)) = signature

\* the type http.DetectContentType gives the bytes of the detection
Baseline(d) == DetectContentType(d.data)
TextBaseline(d) == Len(Baseline(d)) >= 5 /\ SubSeq(Baseline(d), 1, 5) = "text/"

\* the rules of the override step that apply to a detection
ZipRule(d) ==
    /\ StartsWith(d, <<80, 75, 3, 4>>)
    /\ ExpectedExtension[d.path] \in {".docx", ".xlsx", ".pptx", ".epub"}
PdfRule(d) == StartsWith(d, <<37, 80, 68, 70>>)
OleRule(d) ==
    /\ StartsWith(d, <<208, 207, 17, 224, 161, 177, 26, 225>>)
    /\ ExpectedExtension[d.path] \in {".doc", ".xls", ".ppt"}
TextRule(d) ==
    /\ TextBaseline(d)
    /\ ExpectedExtension[d.path] \in {".csv", ".html", ".htm", ".xml", ".ipynb"}

\* the type each extension stands for, written out
TypeOfExtension ==
    [e \in {".docx", ".xlsx", ".pptx", ".epub", ".doc", ".xls", ".ppt", ".csv", ".html",
            ".htm", ".xml", ".ipynb"} |->
        CASE e = ".docx" ->
                "application/vnd.openxmlformats-officedocument.wordprocessingml.document"
          [] e = ".xlsx" ->
                "application/vnd.openxmlformats-officedocument.spreadsheetml.sheet"
          [] e = ".pptx" ->
                "application/vnd.openxmlformats-officedocument.presentationml.presentation"
          [] e = ".epub" -> "application/epub+zip"
          [] e = ".doc" -> "application/msword"
          [] e = ".xls" -> "application/vnd.ms-excel"
          [] e = ".ppt" -> "application/vnd.ms-powerpoint"
          [] e = ".csv" -> "text/csv"
          [] e = ".html" -> "text/html"
          [] e = ".htm" -> "text/html"
          [] e = ".xml" -> "application/xml"
          [] e = ".ipynb" -> "application/x-ipynb+json"]

\* C28: the detected type is that of the first rule that applies, in the order
\* ZIP signature with an OOXML or EPUB extension, %PDF signature (application/pdf
\* whatever the extension and the baseline), OLE signature with .doc, .xls or
\* .ppt, text baseline with .csv, .html, .htm, .xml or .ipynb; when none
\* applies it is the baseline, so an extension of a text format does not
\* change a baseline that is not text.
C28_OverridePriority ==
    \A d \in {detections.prev, detections.cur} :
        (Detected(d) /\ d.readable) =>
            LET e == ExpectedExtension[d.path]
                type == d.info.MimeType
            IN  /\ ZipRule(d) => type = TypeOfExtension[e]
                /\ (~ZipRule(d) /\ PdfRule(d)) => type = "application/pdf"
                /\ (~ZipRule(d) /\ ~PdfRule(d) /\ OleRule(d)) => type = TypeOfExtension[e]
                /\ (~ZipRule(d) /\ ~PdfRule(d) /\ ~OleRule(d) /\ TextRule(d)) =>
                      type = TypeOfExtension[e]
                /\ (~ZipRule(d) /\ ~PdfRule(d) /\ ~OleRule(d) /\ ~TextRule(d)) =>
                      type = Baseline(d)

\* C28 witness: the bytes %PDF, whose baseline is text, detected as PDF under a
\* .csv name, and an OLE file, whose baseline is not text, left as it was under
\* the same name.
C28_Witness ==
    /\ Detected(detections.prev)
    /\ detections.prev.data = <<37, 80, 68, 70>>
    /\ TextBaseline(detections.prev)
    /\ detections.prev.path = "a.csv"
    /\ detections.prev.info.MimeType = "application/pdf"
    /\ Detected(detections.cur)
    /\ detections.cur.data = <<208, 207, 17, 224, 161, 177, 26, 225>>
    /\ detections.cur.path = "a.csv"
    /\ detections.cur.info.MimeType = "application/octet-stream"

(***************************************************************************)
(* DOCX list counters within one conversion: properties.                   *)
(***************************************************************************)

\* the body is list items, with or without an unnumbered paragraph among them
IsCountedBody == Sound /\ archive.Body \in ListBodies \cup InterruptedListBodies

\* the paragraphs of the body that are list items, and the ones that are numbered
IsItem(i) == \E k \in ListItemKinds : archive.Body[i] = ListParagraph(k[1], k[2], "x")
IsNumbered(i) == IsItem(i) /\ ItemKind(i) # <<"3", "0">>

\* word/numbering.xml read by hand: the key of the counter of each numbered
\* (instance, level), the instance and the left indent of the level in steps of 360
CounterKey(k) ==
    CASE k = <<"1", "0">> -> "1:2"
      [] k = <<"1", "1">> -> "1:4"
      [] k = <<"2", "0">> -> "2:0"
      [] k = <<"2", "1">> -> "2:0"

\* the numbered paragraphs with the counter key of the i-th, and the first of them
SameKey(i) ==
    {j \in 1..Len(archive.Body) :
        IsNumbered(j) /\ CounterKey(ItemKind(j)) = CounterKey(ItemKind(i))}
FirstOfKey(i) == CHOOSE j \in SameKey(i) : \A m \in SameKey(i) : j <= m

\* the ordinal of the i-th paragraph: the start value of the first paragraph of
\* its key, and one more for each paragraph of the key before it
Ordinal(i) ==
    LevelStart(ItemKind(FirstOfKey(i))) + Cardinality({j \in SameKey(i) : j < i})

\* the line of the i-th paragraph
CountedLine(i) ==
    IF ~IsItem(i) THEN "y\n"
    ELSE LevelIndent(ItemKind(i))
            \o (IF IsNumbered(i) THEN Itoa(Ordinal(i)) \o ". " ELSE "* ")
            \o "x\n"

\* C29: in one conversion the ordinals written for one counter key are start,
\* start + 1, start + 2, ... in document order, start being the start value of the
\* key's first item, whatever bullet items, unnumbered paragraphs and items of
\* other keys stand in between; each numbered paragraph advances its counter by
\* one, so the counter left behind is start plus the number of the key's items
\* less one, and there is no counter but those of the keys in the document.
C29_CountersOnlyAdvance ==
    \A r \in RunIndexes :
        IsCountedBody =>
            /\ runs[r].err = NilErr
            /\ runs[r].out = ConcatFrom([i \in 1..Len(archive.Body) |-> CountedLine(i)], 1)
            /\ DOMAIN runs[r].list =
                  {CounterKey(ItemKind(i)) : i \in {j \in 1..Len(archive.Body) : IsNumbered(j)}}
            /\ \A i \in 1..Len(archive.Body) :
                  IsNumbered(i) =>
                     runs[r].list[CounterKey(ItemKind(i))]
                        = LevelStart(ItemKind(FirstOfKey(i))) + Cardinality(SameKey(i)) - 1

\* C29 witness: an item of level 1 of instance 2 (start value 5), an unnumbered
\* paragraph, a bullet item and an item of level 0 of instance 2 (start value 1,
\* same key), converted: the items are numbered 5 and 6.
C29_Witness ==
    /\ IsCountedBody
    /\ archive.Body = <<ListParagraph("2", "1", "x"), PlainParagraph("y"),
                        ListParagraph("3", "0", "x"), ListParagraph("2", "0", "x")>>
    /\ Len(runs) >= 1
    /\ runs[1].out = "5. x\ny\n    * x\n6. x\n"
    /\ runs[1].list["2:0"] = 6

====
